---- MODULE Spec2Model ----
(***************************************************************************)
(* Forex signal backtester: the server engine runBacktest of               *)
(* server/backtest-engine.ts (lines 1-594) and its pure helpers.           *)
(*                                                                         *)
(* Number representation (all integers, exact on the input grids used):    *)
(*   price   in points, 1 point = 0.0001                                   *)
(*   pips    whole pips (prices of a symbol lie on that symbol's pip grid) *)
(*   lots    in units of 1/6400 lot, so 0.01 lot = 64 units                *)
(*   money   in units of 1/6400 dollar, so pips * 10 * lots is literal     *)
(*   weighted pips (OpenTrade.weightedPips, TradeResult.pips) in 1/64 pip  *)
(*   instants in seconds since 1970-01-01 (Date.getTime() / 1000)          *)
(* A number that may be NaN or infinite is a record, see Num.              *)
(***************************************************************************)
EXTENDS Integers, Sequences, FiniteSets, TLC

\* ---------------------------------------------------------------- bounds
MaxTicks == 3
MaxPrice == 6
MaxStopPips == 3

\* ------------------------------------------------------ program constants
LotUnit == 2^6
MinLotCentis == 1
WeightScale == 2^6
pipValuePerLot == 10
DefaultRiskPercentage == 1
DefaultRuleAmount == 100
DefaultPartialPercent == 50
FallbackYear == 2024
ProfitFactorSentinel == 999

Dollar == 100 * LotUnit

\* ------------------------------------------------------------ JS helpers
\* an IEEE number that may not be finite: a finite one carries its value
Num(n) == [kind |-> "num", val |-> n]
NaN == [kind |-> "NaN"]
Infinity == [kind |-> "Infinity"]
NegInfinity == [kind |-> "-Infinity"]

IsFinite(x) == x.kind = "num"

Abs(x) == IF x < 0 THEN -x ELSE x

Max(a, b) == IF a >= b THEN a ELSE b

Min(a, b) == IF a <= b THEN a ELSE b

\* a || b on a number: 0 is falsy, and a field that was left out is 0 here
OrElse(a, b) == IF a = 0 THEN b ELSE a

\* Array.prototype.includes
Includes(seq, x) == \E i \in 1..Len(seq) : seq[i] = x

RECURSIVE SeqSum(_)
SeqSum(s) == IF s = <<>> THEN 0 ELSE Head(s) + SeqSum(Tail(s))

\* ------------------------------------------------------------- symbols
Symbols == {"EURUSD", "USDJPY", "usdjpy", "XAUUSD", "GOLD"}

toUpperCase(symbol) == IF symbol = "usdjpy" THEN "USDJPY" ELSE symbol

\* String.prototype.includes on the symbol names of the model
StrIncludes(s, sub) ==
  CASE sub = "JPY" -> s \in {"USDJPY"}
    [] sub = "XAU" -> s \in {"XAUUSD"}
    [] sub = "GOLD" -> s \in {"GOLD"}
    [] OTHER -> FALSE

\* getPipValue: 0.01, 0.1 or 0.0001, in points
getPipValue(symbol) ==
  LET upperSymbol == toUpperCase(symbol)
  IN  IF StrIncludes(upperSymbol, "JPY") THEN 100
      ELSE IF StrIncludes(upperSymbol, "XAU") \/ StrIncludes(upperSymbol, "GOLD") THEN 1000
      ELSE 1

\* calculatePips with the buy branch taken for both directions
calculatePipsLong(entryPrice, exitPrice, direction, symbol) ==
  (exitPrice - entryPrice) \div getPipValue(symbol)

\* calculatePips: priceDiff / pipValue (exact: prices lie on the pip grid)
calculatePips(entryPrice, exitPrice, direction, symbol) ==
  LET pipValue == getPipValue(symbol)
      priceDiff == IF direction = "buy" THEN exitPrice - entryPrice
                                        ELSE entryPrice - exitPrice
  IN  priceDiff \div pipValue

\* calculateProfit: pips * 10 * lotSize
calculateProfit(pips, lotSize) == pips * 10 * lotSize

\* a / 0 in IEEE arithmetic, a finite
DivByZero(a) == IF a > 0 THEN Infinity ELSE IF a < 0 THEN NegInfinity ELSE NaN

\* Math.max(0.01, x), x in hundredths of a lot; the result in lot units
MathMaxMinLot(x) ==
  CASE x.kind = "NaN" -> NaN
    [] x.kind = "Infinity" -> Infinity
    [] x.kind = "-Infinity" -> Num(MinLotCentis * LotUnit)
    [] OTHER -> Num(Max(MinLotCentis, x.val) * LotUnit)

\* Math.round(lots * 100) for lots = riskAmount / (|stopLossPips| * 10), where
\* riskAmount = balance * (pct / 100): floor(x + 1/2) of
\* x = balance * pct / (Dollar * 10 * |stopLossPips|), in hundredths of a lot
RoundedCentiLots(balance, pct, stopLossPips) ==
  LET den == Abs(stopLossPips) * pipValuePerLot * Dollar
      num == balance * pct
  IN  IF den = 0 THEN DivByZero(num)
      ELSE Num((2 * num + den) \div (2 * den))

\* calculateLotSize; riskConfig fields the caller left out are 0
calculateLotSize(riskConfig, balance, stopLossPips, symbol) ==
  CASE riskConfig.riskType = "percentage" ->
         MathMaxMinLot(RoundedCentiLots(balance,
                         OrElse(riskConfig.riskPercentage, DefaultRiskPercentage),
                         stopLossPips))
    [] riskConfig.riskType = "fixed_lot" ->
         Num(OrElse(riskConfig.fixedLotSize, MinLotCentis * LotUnit))
    [] riskConfig.riskType = "rule_based" ->
         LET ruleAmount == OrElse(riskConfig.ruleBasedAmount, DefaultRuleAmount * Dollar)
             ruleLot == OrElse(riskConfig.ruleBasedLot, MinLotCentis * LotUnit)
             multiplier == balance \div ruleAmount
         IN  Num(Max(MinLotCentis * LotUnit, multiplier * ruleLot))
    [] OTHER -> Num(MinLotCentis * LotUnit)

\* ---------------------------------------------------------- timestamps
\* Days from 1970-01-01 to the first day of month monthIndex (0-based, any
\* integer) of year y, as the Date constructor normalises them
DaysBeforeMonth(y, monthIndex) ==
  LET yy == y + (monthIndex \div 12)
      mm == (monthIndex % 12) + 1
      ya == IF mm <= 2 THEN yy - 1 ELSE yy
      era == ya \div 400
      yoe == ya - era * 400
      mp == (mm + 9) % 12
      doy == (153 * mp + 2) \div 5
      doe == yoe * 365 + (yoe \div 4) - (yoe \div 100) + doy
  IN  era * 146097 + doe - 719468

\* new Date(year, monthIndex, day, hours, minutes, seconds).getTime() / 1000;
\* a year of 0..99 is 1900 + year
NewDate(year, monthIndex, day, hours, minutes, seconds) ==
  LET y == IF year >= 0 /\ year <= 99 THEN 1900 + year ELSE year
  IN  (DaysBeforeMonth(y, monthIndex) + (day - 1)) * 86400
        + hours * 3600 + minutes * 60 + seconds

\* A string is the sequence of its characters. A timestamp string is held
\* split: [kind |-> "text", date |-> the parts of its first whitespace-separated
\* word split on - . /, time |-> the parts of its second word split on : .
\* (<<>> when it has no second word)]; an absent timestamp is
\* [kind |-> "undefined"] and the empty string [kind |-> "empty"].
Digits == <<"0", "1", "2", "3", "4", "5", "6", "7", "8", "9">>

IsDigit(c) == \E d \in 1..10 : Digits[d] = c

DigitValue(c) == (CHOOSE d \in 1..10 : Digits[d] = c) - 1

\* the value of the leading run of digits of str, continuing from acc
RECURSIVE LeadingDigits(_, _)
LeadingDigits(str, acc) ==
  IF str = <<>> \/ ~IsDigit(Head(str)) THEN acc
  ELSE LeadingDigits(Tail(str), acc * 10 + DigitValue(Head(str)))

\* parseInt(parts[i]) || 0: NaN when the part is missing or starts with no digit
ParseIntOr0(parts, i) ==
  IF i <= Len(parts) /\ parts[i] # <<>> /\ IsDigit(Head(parts[i]))
  THEN LeadingDigits(parts[i], 0)
  ELSE 0

\* parseSignalTimestamp (server engine)
parseSignalTimestamp(timestamp) ==
  LET dateParts == timestamp.date
      timeParts == IF timestamp.time = <<>> THEN <<<<"0", "0">>, <<"0", "0">>, <<"0", "0">>>>
                   ELSE timestamp.time
      p0 == ParseIntOr0(dateParts, 1)
      p1 == ParseIntOr0(dateParts, 2)
      p2 == ParseIntOr0(dateParts, 3)
      ymd == IF p0 > 31 THEN <<p0, p1, p2>>
             ELSE IF p2 > 31 THEN
               IF p0 > 12 THEN <<p2, p1, p0>>
               ELSE IF p1 > 12 THEN <<p2, p0, p1>>
               ELSE <<p2, p1, p0>>
             ELSE <<IF p0 < 100 THEN 2000 + p0 ELSE p0, p1, p2>>
  IN  NewDate(OrElse(ymd[1], FallbackYear), OrElse(ymd[2], 1) - 1, OrElse(ymd[3], 1),
              ParseIntOr0(timeParts, 1), ParseIntOr0(timeParts, 2),
              ParseIntOr0(timeParts, 3))

\* s => s.timestamp: undefined and the empty string are falsy
HasTimestamp(s) == s.timestamp.kind = "text"

\* Array.prototype.filter
RECURSIVE FilterTimestamped(_)
FilterTimestamped(sigs) ==
  IF sigs = <<>> THEN <<>>
  ELSE IF HasTimestamp(Head(sigs))
       THEN <<Head(sigs)>> \o FilterTimestamped(Tail(sigs))
       ELSE FilterTimestamped(Tail(sigs))

\* the comparator of the sort: ta.getTime() - tb.getTime()
CompareSignals(a, b) == parseSignalTimestamp(a.timestamp) - parseSignalTimestamp(b.timestamp)

\* insert s after every element that does not compare greater (a stable sort)
RECURSIVE InsertSorted(_, _)
InsertSorted(sorted, s) ==
  IF sorted = <<>> THEN <<s>>
  ELSE IF CompareSignals(Head(sorted), s) <= 0
       THEN <<Head(sorted)>> \o InsertSorted(Tail(sorted), s)
       ELSE <<s>> \o sorted

\* SortSignals with the signals left in the order of the input
SortSignalsInputOrder(sigs) == sigs

\* Array.prototype.sort with CompareSignals (stable)
RECURSIVE SortSignals(_)
SortSignals(sigs) ==
  IF sigs = <<>> THEN <<>>
  ELSE InsertSorted(SortSignals(SubSeq(sigs, 1, Len(sigs) - 1)), sigs[Len(sigs)])

\* ------------------------------------------------------- the run's state
\* Date | null and the optional result: <<>> or a one-element sequence
null == <<>>

NoTick == [timestamp |-> 0, bid |-> 0, ask |-> 0]

\* The locals of runBacktest before its first statement. seed names the
\* stream crypto.randomUUID() draws from and uuids counts the draws;
\* wallClock is what new Date() reads when the run starts. stages is the
\* history of lots closed: [signalId, lots, initialLotSize, exitPrice, final]
\* per partial or full close.
InitRun(seed, wallClock) ==
  [pc |-> "start", seed |-> seed, wallClock |-> wallClock, uuids |-> 0,
   error |-> "", result |-> null,
   startTime |-> 0, sortedSignals |-> <<>>, trades |-> <<>>, equityCurve |-> <<>>,
   balance |-> 0, equity |-> 0, maxEquity |-> 0, maxBalance |-> 0,
   maxDrawdownEquity |-> 0, maxDrawdownBalance |-> 0,
   openTrades |-> <<>>, signalIndex |-> 0, tickCount |-> 0,
   firstTickTime |-> null, lastTickTime |-> null,
   tick |-> NoTick, queue |-> <<>>, tradesToClose |-> <<>>, stages |-> <<>>]

\* crypto.randomUUID(): the next value of the run's stream
randomUUID(st) == <<st.seed, st.uuids>>

\* throw new Error(message)
Throw(st, message) == [st EXCEPT !.pc = "error", !.error = message]

NoSignalsMessage == "No signals provided for backtesting"

NoTimestampsMessage ==
  "No signals with timestamps found. Make sure your signal format includes {date} and {time} placeholders."

\* runBacktest up to the tick loop: the two configuration errors, the sort
\* and the initial balance, trackers and equity point
Start(st, sigs, risk) ==
  IF Len(sigs) = 0 THEN Throw(st, NoSignalsMessage)
  ELSE
    LET sorted == SortSignals(FilterTimestamped(sigs))
        balance == risk.initialBalance
    IN  IF Len(sorted) = 0 THEN Throw(st, NoTimestampsMessage)
        ELSE [st EXCEPT !.pc = "pull",
                        !.sortedSignals = sorted,
                        !.startTime = st.wallClock,
                        !.balance = balance,
                        !.equity = balance,
                        !.maxEquity = balance,
                        !.maxBalance = balance,
                        !.maxDrawdownEquity = 0,
                        !.maxDrawdownBalance = 0,
                        !.equityCurve = <<[time |-> st.wallClock, equity |-> balance,
                                           balance |-> balance]>>]

\* the index in openTrades of the entry with key id, 0 when there is none
IndexOfTrade(openTrades, id) ==
  IF \E i \in 1..Len(openTrades) : openTrades[i].signalId = id
  THEN CHOOSE i \in 1..Len(openTrades) : openTrades[i].signalId = id
  ELSE 0

\* Map.prototype.set: a key already present keeps its place
MapSet(openTrades, trade) ==
  LET i == IndexOfTrade(openTrades, trade.signalId)
  IN  IF i = 0 THEN Append(openTrades, trade) ELSE [openTrades EXCEPT ![i] = trade]

\* EntryLotSize computed from the balance the run started with
EntryLotSizeInitialBalance(signal, tick, balance, risk) ==
  LET entryPrice == IF signal.direction = "buy" THEN tick.ask ELSE tick.bid
      slPips == Abs(calculatePips(entryPrice, signal.stopLoss, signal.direction, signal.symbol))
  IN  calculateLotSize(risk, risk.initialBalance, slPips, signal.symbol)

\* the lot size a signal opened on tick is given
EntryLotSize(signal, tick, balance, risk) ==
  LET entryPrice == IF signal.direction = "buy" THEN tick.ask ELSE tick.bid
      slPips == Abs(calculatePips(entryPrice, signal.stopLoss, signal.direction, signal.symbol))
  IN  calculateLotSize(risk, balance, slPips, signal.symbol)

\* NewOpenTrade with the position entered at the signal's own entry price
NewOpenTradeAtSignalPrice(signal, tick, balance, risk) ==
  LET entryPrice == signal.entryPrice
      lotSize == EntryLotSize(signal, tick, balance, risk).val
  IN  [signalId |-> signal.id, signal |-> signal,
       entryPrice |-> entryPrice, entryTime |-> tick.timestamp,
       currentSL |-> signal.stopLoss,
       initialLotSize |-> lotSize, remainingLots |-> lotSize,
       highestPrice |-> entryPrice, lowestPrice |-> entryPrice,
       tpHits |-> <<>>, realizedProfit |-> 0, weightedPips |-> 0]

\* the OpenTrade a signal is opened as
NewOpenTrade(signal, tick, balance, risk) ==
  LET entryPrice == IF signal.direction = "buy" THEN tick.ask ELSE tick.bid
      lotSize == EntryLotSize(signal, tick, balance, risk).val
  IN  [signalId |-> signal.id, signal |-> signal,
       entryPrice |-> entryPrice, entryTime |-> tick.timestamp,
       currentSL |-> signal.stopLoss,
       initialLotSize |-> lotSize, remainingLots |-> lotSize,
       highestPrice |-> entryPrice, lowestPrice |-> entryPrice,
       tpHits |-> <<>>, realizedProfit |-> 0, weightedPips |-> 0]

\* while (signalIndex < sortedSignals.length): open every signal whose time
\* has come, stop at the first whose time has not
RECURSIVE OpenDueSignals(_, _, _)
OpenDueSignals(st, tick, risk) ==
  IF st.signalIndex < Len(st.sortedSignals)
  THEN LET signal == st.sortedSignals[st.signalIndex + 1]
           signalTime == parseSignalTimestamp(signal.timestamp)
       IN  IF tick.timestamp >= signalTime
           THEN OpenDueSignals(
                  [st EXCEPT !.openTrades = MapSet(@, NewOpenTrade(signal, tick, st.balance, risk)),
                             !.signalIndex = @ + 1],
                  tick, risk)
           ELSE st
  ELSE st

\* the ids of Array.from(openTrades.entries()), in insertion order
EntryIds(openTrades) == [i \in 1..Len(openTrades) |-> openTrades[i].signalId]

\* NextTick with the loop over the open trades run on the open set as it was
\* before the tick's signals were opened
NextTickEarlySnapshot(st, tick, risk) ==
  LET counted == [st EXCEPT !.firstTickTime = IF @ = null THEN <<tick.timestamp>> ELSE @,
                            !.lastTickTime = <<tick.timestamp>>,
                            !.tickCount = @ + 1,
                            !.tick = tick]
      opened == OpenDueSignals(counted, tick, risk)
  IN  [opened EXCEPT !.pc = "eval",
                     !.tradesToClose = <<>>,
                     !.queue = EntryIds(counted.openTrades)]

\* one iteration of for await (const tick of streamTicks(...)) up to the
\* loop over the open trades
NextTick(st, tick, risk) ==
  LET counted == [st EXCEPT !.firstTickTime = IF @ = null THEN <<tick.timestamp>> ELSE @,
                            !.lastTickTime = <<tick.timestamp>>,
                            !.tickCount = @ + 1,
                            !.tick = tick]
      opened == OpenDueSignals(counted, tick, risk)
  IN  [opened EXCEPT !.pc = "eval",
                     !.tradesToClose = <<>>,
                     !.queue = EntryIds(opened.openTrades)]

\* ------------------------------------------- the loop over the open trades
\* trade.highestPrice / trade.lowestPrice
UpdateExtremes(trade, tick) ==
  IF trade.signal.direction = "buy"
  THEN [trade EXCEPT !.highestPrice = Max(@, tick.bid)]
  ELSE [trade EXCEPT !.lowestPrice = Min(@, tick.ask)]

\* TrailStop with the stop following the extreme in both directions
TrailStopBothWays(trade, strat) ==
  IF strat.trailingSL /\ strat.trailingPips # 0
  THEN LET trailDistance == strat.trailingPips * getPipValue(trade.signal.symbol)
       IN  IF trade.signal.direction = "buy"
           THEN [trade EXCEPT !.currentSL = trade.highestPrice - trailDistance]
           ELSE [trade EXCEPT !.currentSL = trade.lowestPrice + trailDistance]
  ELSE trade

\* if (strategy.trailingSL && strategy.trailingPips)
TrailStop(trade, strat) ==
  IF strat.trailingSL /\ strat.trailingPips # 0
  THEN LET trailDistance == strat.trailingPips * getPipValue(trade.signal.symbol)
       IN  IF trade.signal.direction = "buy"
           THEN LET newSL == trade.highestPrice - trailDistance
                IN  IF newSL > trade.currentSL THEN [trade EXCEPT !.currentSL = newSL] ELSE trade
           ELSE LET newSL == trade.lowestPrice + trailDistance
                IN  IF newSL < trade.currentSL THEN [trade EXCEPT !.currentSL = newSL] ELSE trade
  ELSE trade

\* MoveSLToEntry with the stop set to the entry price whatever it was
MoveSLToEntryUnclamped(trade, strat) ==
  IF strat.moveSLToEntry /\ strat.moveSLAfterTP # 0 /\ Len(trade.tpHits) >= strat.moveSLAfterTP
  THEN [trade EXCEPT !.currentSL = trade.entryPrice]
  ELSE trade

\* if (strategy.moveSLToEntry && strategy.moveSLAfterTP && tpHits.length >= moveSLAfterTP)
MoveSLToEntry(trade, strat) ==
  IF strat.moveSLToEntry /\ strat.moveSLAfterTP # 0 /\ Len(trade.tpHits) >= strat.moveSLAfterTP
  THEN IF trade.signal.direction = "buy" /\ trade.currentSL < trade.entryPrice
       THEN [trade EXCEPT !.currentSL = trade.entryPrice]
       ELSE IF trade.signal.direction = "sell" /\ trade.currentSL > trade.entryPrice
       THEN [trade EXCEPT !.currentSL = trade.entryPrice]
       ELSE trade
  ELSE trade

\* the trade as the stop-loss check finds it on tick
AdjustTrade(trade, tick, strat) ==
  MoveSLToEntry(TrailStop(UpdateExtremes(trade, tick), strat), strat)

\* slHit
StopLossHit(trade, tick) ==
  \/ trade.signal.direction = "buy" /\ tick.bid <= trade.currentSL
  \/ trade.signal.direction = "sell" /\ tick.ask >= trade.currentSL

\* slExitPrice
SlExitPrice(trade, tick) ==
  IF trade.signal.direction = "buy" THEN tick.bid ELSE tick.ask

\* TrackDrawdown with the maxima following the current values down
TrackDrawdownNoPeak(st) ==
  [st EXCEPT !.maxEquity = st.equity, !.maxBalance = st.balance]

\* the running maxima and drawdowns after a change of balance and equity
TrackDrawdown(st) ==
  LET eq == IF st.equity > st.maxEquity
            THEN [st EXCEPT !.maxEquity = st.equity]
            ELSE IF st.maxEquity - st.equity > st.maxDrawdownEquity
            THEN [st EXCEPT !.maxDrawdownEquity = st.maxEquity - st.equity]
            ELSE st
  IN  IF eq.balance > eq.maxBalance
      THEN [eq EXCEPT !.maxBalance = eq.balance]
      ELSE IF eq.maxBalance - eq.balance > eq.maxDrawdownBalance
      THEN [eq EXCEPT !.maxDrawdownBalance = eq.maxBalance - eq.balance]
      ELSE eq

\* Realize with the balance left as it was
RealizeEquityOnly(st, profit) ==
  TrackDrawdown([st EXCEPT !.equity = st.balance + profit])

\* balance += profit; equity = balance; then the trackers
Realize(st, profit) ==
  TrackDrawdown([st EXCEPT !.balance = @ + profit, !.equity = st.balance + profit])

\* the object of the open trade with key trade.signalId, replaced by trade
PutTrade(st, trade) ==
  [st EXCEPT !.openTrades[IndexOfTrade(st.openTrades, trade.signalId)] = trade]

\* exitTime: tick.timestamp.toISOString()
ExitTime(st) == st.tick.timestamp

\* the full close of a trade, by the stop or by a take-profit level: its
\* remaining lots are closed at exitPrice, one trade record and one equity
\* point are appended and the trade is listed for deletion
CloseTrade(st, trade, exitPrice, exitReason) ==
  LET signal == trade.signal
      pips == calculatePips(trade.entryPrice, exitPrice, signal.direction, signal.symbol)
      exitProfit == calculateProfit(pips, trade.remainingLots)
      totalProfit == exitProfit + trade.realizedProfit
      totalWeightedPips == trade.weightedPips
                             + (pips * trade.remainingLots * WeightScale) \div trade.initialLotSize
      paid == Realize(PutTrade(st, trade), exitProfit)
  IN  [paid EXCEPT
         !.trades = Append(@, [id |-> randomUUID(st),
                               signalId |-> signal.id,
                               symbol |-> signal.symbol,
                               direction |-> signal.direction,
                               entryPrice |-> trade.entryPrice,
                               entryTime |-> trade.entryTime,
                               exitPrice |-> exitPrice,
                               exitTime |-> ExitTime(st),
                               exitReason |-> exitReason,
                               lotSize |-> trade.initialLotSize,
                               pips |-> totalWeightedPips,
                               profit |-> totalProfit,
                               balance |-> paid.balance,
                               equity |-> paid.equity]),
         !.uuids = @ + 1,
         !.equityCurve = Append(@, [time |-> st.tick.timestamp, equity |-> paid.equity,
                                    balance |-> paid.balance]),
         !.tradesToClose = Append(@, trade.signalId),
         !.stages = Append(@, [signalId |-> signal.id, lots |-> trade.remainingLots,
                               initialLotSize |-> trade.initialLotSize,
                               exitPrice |-> exitPrice, final |-> TRUE])]

\* tpHit for level tpLevel
TpPriceHit(trade, tick, tpLevel) ==
  LET tp == trade.signal.takeProfits[tpLevel]
  IN  \/ trade.signal.direction = "buy" /\ tick.bid >= tp
      \/ trade.signal.direction = "sell" /\ tick.ask <= tp

\* tpExitPrice
TpExitPrice(trade, tick) ==
  IF trade.signal.direction = "buy" THEN tick.bid ELSE tick.ask

\* the levels the loop over signal.takeProfits stops at: active, not yet hit,
\* and hit by the tick
HitLevels(trade, tick, strat) ==
  {tpLevel \in 1..Len(trade.signal.takeProfits) :
     /\ Includes(strat.activeTPs, tpLevel)
     /\ ~Includes(trade.tpHits, tpLevel)
     /\ TpPriceHit(trade, tick, tpLevel)}

\* FirstTpHit with the loop breaking at the highest level the tick reaches
FirstTpHitHighest(trade, tick, strat) ==
  LET levels == HitLevels(trade, tick, strat)
  IN  IF levels = {} THEN 0 ELSE CHOOSE l \in levels : \A m \in levels : l >= m

\* the level the loop breaks at, 0 when it runs to its end
FirstTpHit(trade, tick, strat) ==
  LET levels == HitLevels(trade, tick, strat)
  IN  IF levels = {} THEN 0 ELSE CHOOSE l \in levels : \A m \in levels : l <= m

\* `tp${tpLevel}`
TpReason(tpLevel) == <<"tp1", "tp2", "tp3", "tp4">>[tpLevel]

\* PartialClose with trade.remainingLots left as it was
PartialCloseKeepLots(st, trade, exitPrice, strat) ==
  LET closeLots == (trade.remainingLots * OrElse(strat.partialClosePercent, DefaultPartialPercent))
                     \div 100
      pips == calculatePips(trade.entryPrice, exitPrice, trade.signal.direction,
                            trade.signal.symbol)
      partialProfit == calculateProfit(pips, closeLots)
      partial == [trade EXCEPT
                    !.realizedProfit = @ + partialProfit,
                    !.weightedPips = @ + (pips * closeLots * WeightScale) \div trade.initialLotSize]
      paid == Realize(PutTrade(st, partial), partialProfit)
  IN  [paid EXCEPT !.stages = Append(@, [signalId |-> trade.signalId, lots |-> closeLots,
                                         initialLotSize |-> trade.initialLotSize,
                                         exitPrice |-> exitPrice, final |-> FALSE])]

\* PartialClose with a trade record appended for the lots it closes
PartialCloseRecorded(st, trade, exitPrice, strat) ==
  LET closeLots == (trade.remainingLots * OrElse(strat.partialClosePercent, DefaultPartialPercent))
                     \div 100
      pips == calculatePips(trade.entryPrice, exitPrice, trade.signal.direction,
                            trade.signal.symbol)
      partialProfit == calculateProfit(pips, closeLots)
      partial == [trade EXCEPT
                    !.remainingLots = @ - closeLots,
                    !.realizedProfit = @ + partialProfit,
                    !.weightedPips = @ + (pips * closeLots * WeightScale) \div trade.initialLotSize]
      paid == Realize(PutTrade(st, partial), partialProfit)
  IN  [paid EXCEPT
         !.trades = Append(@, [id |-> randomUUID(st),
                               signalId |-> trade.signalId,
                               symbol |-> trade.signal.symbol,
                               direction |-> trade.signal.direction,
                               entryPrice |-> trade.entryPrice,
                               entryTime |-> trade.entryTime,
                               exitPrice |-> exitPrice,
                               exitTime |-> ExitTime(st),
                               exitReason |-> TpReason(Len(trade.tpHits)),
                               lotSize |-> closeLots,
                               pips |-> pips * WeightScale,
                               profit |-> partialProfit,
                               balance |-> paid.balance,
                               equity |-> paid.equity]),
         !.uuids = @ + 1,
         !.stages = Append(@, [signalId |-> trade.signalId, lots |-> closeLots,
                               initialLotSize |-> trade.initialLotSize,
                               exitPrice |-> exitPrice, final |-> FALSE])]

\* PartialClose with trade.weightedPips left as it was
PartialCloseUnweighted(st, trade, exitPrice, strat) ==
  LET closeLots == (trade.remainingLots * OrElse(strat.partialClosePercent, DefaultPartialPercent))
                     \div 100
      pips == calculatePips(trade.entryPrice, exitPrice, trade.signal.direction,
                            trade.signal.symbol)
      partialProfit == calculateProfit(pips, closeLots)
      partial == [trade EXCEPT
                    !.remainingLots = @ - closeLots,
                    !.realizedProfit = @ + partialProfit]
      paid == Realize(PutTrade(st, partial), partialProfit)
  IN  [paid EXCEPT !.stages = Append(@, [signalId |-> trade.signalId, lots |-> closeLots,
                                         initialLotSize |-> trade.initialLotSize,
                                         exitPrice |-> exitPrice, final |-> FALSE])]

\* PartialClose with all the remaining lots closed
PartialCloseWhole(st, trade, exitPrice, strat) ==
  LET closeLots == trade.remainingLots
      pips == calculatePips(trade.entryPrice, exitPrice, trade.signal.direction,
                            trade.signal.symbol)
      partialProfit == calculateProfit(pips, closeLots)
      partial == [trade EXCEPT
                    !.remainingLots = @ - closeLots,
                    !.realizedProfit = @ + partialProfit,
                    !.weightedPips = @ + (pips * closeLots * WeightScale) \div trade.initialLotSize]
      paid == Realize(PutTrade(st, partial), partialProfit)
  IN  [paid EXCEPT !.stages = Append(@, [signalId |-> trade.signalId, lots |-> closeLots,
                                         initialLotSize |-> trade.initialLotSize,
                                         exitPrice |-> exitPrice, final |-> FALSE])]

\* else if (strategy.closePartials && remainingTps > 0): part of the remaining
\* lots is closed at exitPrice; no trade record, no equity point
PartialClose(st, trade, exitPrice, strat) ==
  LET closeLots == (trade.remainingLots * OrElse(strat.partialClosePercent, DefaultPartialPercent))
                     \div 100
      pips == calculatePips(trade.entryPrice, exitPrice, trade.signal.direction,
                            trade.signal.symbol)
      partialProfit == calculateProfit(pips, closeLots)
      partial == [trade EXCEPT
                    !.remainingLots = @ - closeLots,
                    !.realizedProfit = @ + partialProfit,
                    !.weightedPips = @ + (pips * closeLots * WeightScale) \div trade.initialLotSize]
      paid == Realize(PutTrade(st, partial), partialProfit)
  IN  [paid EXCEPT !.stages = Append(@, [signalId |-> trade.signalId, lots |-> closeLots,
                                         initialLotSize |-> trade.initialLotSize,
                                         exitPrice |-> exitPrice, final |-> FALSE])]

\* TakeProfit with the close-all threshold left out
TakeProfitNoThreshold(st, trade, tpLevel, strat) ==
  LET tpExitPrice == TpExitPrice(trade, st.tick)
      marked == [trade EXCEPT !.tpHits = Append(@, tpLevel)]
      remainingTps == Len(strat.activeTPs) - Len(marked.tpHits)
      isFinalTp == remainingTps = 0
  IN  IF isFinalTp
      THEN CloseTrade(st, marked, tpExitPrice, TpReason(tpLevel))
      ELSE IF strat.closePartials /\ remainingTps > 0
      THEN PartialClose(st, marked, tpExitPrice, strat)
      ELSE PutTrade(st, marked)

\* if (tpHit): the level is marked, then the trade is closed, partly closed
\* or left as it is
TakeProfit(st, trade, tpLevel, strat) ==
  LET tpExitPrice == TpExitPrice(trade, st.tick)
      marked == [trade EXCEPT !.tpHits = Append(@, tpLevel)]
      remainingTps == Len(strat.activeTPs) - Len(marked.tpHits)
      shouldCloseAll == strat.closeAllOnTP # 0 /\ tpLevel >= strat.closeAllOnTP
      isFinalTp == remainingTps = 0
  IN  IF shouldCloseAll \/ isFinalTp
      THEN CloseTrade(st, marked, tpExitPrice, TpReason(tpLevel))
      ELSE IF strat.closePartials /\ remainingTps > 0
      THEN PartialClose(st, marked, tpExitPrice, strat)
      ELSE PutTrade(st, marked)

\* EvalTrade with the take-profit loop run before the stop-loss check
EvalTradeTpFirst(st, strat) ==
  LET tradeId == Head(st.queue)
      trade == AdjustTrade(st.openTrades[IndexOfTrade(st.openTrades, tradeId)], st.tick, strat)
      visited == [st EXCEPT !.queue = Tail(@)]
      tpLevel == FirstTpHit(trade, st.tick, strat)
  IN  IF tpLevel # 0 THEN TakeProfit(visited, trade, tpLevel, strat)
      ELSE IF StopLossHit(trade, st.tick)
      THEN CloseTrade(visited, trade, SlExitPrice(trade, st.tick),
                      IF strat.trailingSL THEN "trailing_sl" ELSE "sl")
      ELSE PutTrade(visited, trade)

\* the body of for (const [tradeId, trade] of Array.from(openTrades.entries()))
\* for the first entry not yet visited
EvalTrade(st, strat) ==
  LET tradeId == Head(st.queue)
      trade == AdjustTrade(st.openTrades[IndexOfTrade(st.openTrades, tradeId)], st.tick, strat)
      visited == [st EXCEPT !.queue = Tail(@)]
  IN  IF StopLossHit(trade, st.tick)
      THEN CloseTrade(visited, trade, SlExitPrice(trade, st.tick),
                      IF strat.trailingSL THEN "trailing_sl" ELSE "sl")
      ELSE LET tpLevel == FirstTpHit(trade, st.tick, strat)
           IN  IF tpLevel = 0 THEN PutTrade(visited, trade)
               ELSE TakeProfit(visited, trade, tpLevel, strat)

\* DeleteClosed with the closed trades left in the open set
DeleteClosedKeepAll(openTrades, tradesToClose) == openTrades

\* openTrades.delete(id) for every id of tradesToClose
DeleteClosed(openTrades, tradesToClose) ==
  SelectSeq(openTrades, LAMBDA t : ~Includes(tradesToClose, t.signalId))

\* the end of the tick's iteration: the closed trades are deleted, the
\* iteration's tick and tradesToClose go out of scope, and the loop is left
\* once every signal was opened and no trade is open
EndTick(st) ==
  LET openTrades == DeleteClosed(st.openTrades, st.tradesToClose)
  IN  [st EXCEPT !.openTrades = openTrades,
                 !.tick = NoTick,
                 !.tradesToClose = <<>>,
                 !.pc = IF st.signalIndex >= Len(st.sortedSignals) /\ Len(openTrades) = 0
                        THEN "finish" ELSE "pull"]

\* ------------------------------------------------------- after the loop
\* Ratio with the quotient taken the wrong way round
RatioInverted(n, d) == [num |-> d, den |-> n]

\* a quotient the result reports, kept as numerator and denominator
Ratio(n, d) == [num |-> n, den |-> d]

RECURSIVE SeqMax(_)
SeqMax(s) == IF Len(s) = 1 THEN s[1] ELSE Max(Head(s), SeqMax(Tail(s)))

Profits(trades) == [i \in 1..Len(trades) |-> trades[i].profit]

\* the BacktestResults object
Results(st, risk, endTime) ==
  LET trades == st.trades
      winningTrades == SelectSeq(trades, LAMBDA t : t.profit > 0)
      losingTrades == SelectSeq(trades, LAMBDA t : t.profit < 0)
      totalWinAmount == SeqSum(Profits(winningTrades))
      totalLossAmount == Abs(SeqSum(Profits(losingTrades)))
  IN  [id |-> randomUUID(st),
       startTime |-> st.startTime,
       endTime |-> endTime,
       initialBalance |-> risk.initialBalance,
       finalBalance |-> st.balance,
       totalTrades |-> Len(trades),
       winningTrades |-> Len(winningTrades),
       losingTrades |-> Len(losingTrades),
       winRate |-> IF Len(trades) > 0 THEN Ratio(Len(winningTrades) * 100, Len(trades))
                   ELSE Ratio(0, 1),
       totalPips |-> SeqSum([i \in 1..Len(trades) |-> trades[i].pips]),
       maxDrawdownEquity |-> st.maxDrawdownEquity,
       maxDrawdownEquityPercent |-> IF risk.initialBalance > 0
                                    THEN Ratio(st.maxDrawdownEquity * 100, risk.initialBalance)
                                    ELSE Ratio(0, 1),
       maxDrawdownBalance |-> st.maxDrawdownBalance,
       maxDrawdownBalancePercent |-> IF risk.initialBalance > 0
                                     THEN Ratio(st.maxDrawdownBalance * 100, risk.initialBalance)
                                     ELSE Ratio(0, 1),
       profitFactor |-> IF totalLossAmount > 0 THEN Ratio(totalWinAmount, totalLossAmount)
                        ELSE IF totalWinAmount > 0 THEN Ratio(ProfitFactorSentinel, 1)
                        ELSE Ratio(0, 1),
       averageWin |-> IF Len(winningTrades) > 0 THEN Ratio(totalWinAmount, Len(winningTrades))
                      ELSE Ratio(0, 1),
       averageLoss |-> IF Len(losingTrades) > 0 THEN Ratio(totalLossAmount, Len(losingTrades))
                       ELSE Ratio(0, 1),
       largestWin |-> IF Len(winningTrades) > 0 THEN SeqMax(Profits(winningTrades)) ELSE 0,
       largestLoss |-> IF Len(losingTrades) > 0
                       THEN SeqMax([i \in 1..Len(losingTrades) |-> Abs(losingTrades[i].profit)])
                       ELSE 0,
       trades |-> trades,
       equityCurve |-> st.equityCurve]

\* Finish without the no-trade diagnostics
FinishAlwaysReturns(st, risk, endTime) ==
  [st EXCEPT !.pc = "done", !.result = <<Results(st, risk, endTime)>>, !.uuids = @ + 1]

\* the no-trade diagnostics, which throw, and the return of the result
Finish(st, risk, endTime) ==
  LET firstSignalTime == parseSignalTimestamp(st.sortedSignals[1].timestamp)
      lastSignalTime == parseSignalTimestamp(st.sortedSignals[Len(st.sortedSignals)].timestamp)
      returned == [st EXCEPT !.pc = "done", !.result = <<Results(st, risk, endTime)>>,
                             !.uuids = @ + 1]
  IN  IF Len(st.trades) = 0 /\ Len(st.sortedSignals) > 0
      THEN IF st.tickCount = 0 THEN Throw(st, "No tick data was processed")
           ELSE IF st.firstTickTime # null /\ st.lastTickTime # null
           THEN IF firstSignalTime > st.lastTickTime[1]
                THEN Throw(st, "Signal timestamps are AFTER your tick data ends")
                ELSE IF lastSignalTime < st.firstTickTime[1]
                THEN Throw(st, "Signal timestamps are BEFORE your tick data starts")
                ELSE returned
           ELSE returned
      ELSE returned

\* ------------------------------------- the shared core, runBacktestCore
\* The core is a second engine with its own copies of the helpers. Those that
\* differ from the server's are given here under the name Core...; getPipValue,
\* calculatePips and calculateProfit are the same statements in both.
progressInterval == 100000

\* calculateLotSize of the core: the statements of the server's, without the
\* symbol argument
CoreCalculateLotSize(riskConfig, balance, stopLossPips) ==
  CASE riskConfig.riskType = "percentage" ->
         MathMaxMinLot(RoundedCentiLots(balance,
                         OrElse(riskConfig.riskPercentage, DefaultRiskPercentage),
                         stopLossPips))
    [] riskConfig.riskType = "fixed_lot" ->
         Num(OrElse(riskConfig.fixedLotSize, MinLotCentis * LotUnit))
    [] riskConfig.riskType = "rule_based" ->
         LET ruleAmount == OrElse(riskConfig.ruleBasedAmount, DefaultRuleAmount * Dollar)
             ruleLot == OrElse(riskConfig.ruleBasedLot, MinLotCentis * LotUnit)
             multiplier == balance \div ruleAmount
         IN  Num(Max(MinLotCentis * LotUnit, multiplier * ruleLot))
    [] OTHER -> Num(MinLotCentis * LotUnit)

\* parseTimestampSmart on the parts of the date and of the time
parseTimestampSmart(dateParts, timeParts) ==
  LET p0 == ParseIntOr0(dateParts, 1)
      p1 == ParseIntOr0(dateParts, 2)
      p2 == ParseIntOr0(dateParts, 3)
      ymd == IF p0 > 31 THEN <<IF p0 < 100 THEN 2000 + p0 ELSE p0, p1, p2>>
             ELSE IF p2 > 31 \/ p2 < 100 THEN
               LET year == IF p2 < 100 THEN 2000 + p2 ELSE p2
               IN  IF p0 > 12 THEN <<year, p1, p0>>
                   ELSE IF p1 > 12 THEN <<year, p0, p1>>
                   ELSE <<year, p1, p0>>
             ELSE <<IF p0 < 100 THEN 2000 + p0 ELSE p0, p1, p2>>
  IN  NewDate(OrElse(ymd[1], FallbackYear), OrElse(ymd[2], 1) - 1, OrElse(ymd[3], 1),
              ParseIntOr0(timeParts, 1), ParseIntOr0(timeParts, 2),
              ParseIntOr0(timeParts, 3))

\* parseSignalTimestamp of the core: timePart || "00:00:00"
CoreParseSignalTimestamp(timestamp) ==
  parseTimestampSmart(timestamp.date,
                      IF timestamp.time = <<>>
                      THEN <<<<"0", "0">>, <<"0", "0">>, <<"0", "0">>>>
                      ELSE timestamp.time)

CoreCompareSignals(a, b) ==
  CoreParseSignalTimestamp(a.timestamp) - CoreParseSignalTimestamp(b.timestamp)

RECURSIVE CoreInsertSorted(_, _)
CoreInsertSorted(sorted, s) ==
  IF sorted = <<>> THEN <<s>>
  ELSE IF CoreCompareSignals(Head(sorted), s) <= 0
       THEN <<Head(sorted)>> \o CoreInsertSorted(Tail(sorted), s)
       ELSE <<s>> \o sorted

\* Array.prototype.sort with CoreCompareSignals (stable)
RECURSIVE CoreSortSignals(_)
CoreSortSignals(sigs) ==
  IF sigs = <<>> THEN <<>>
  ELSE CoreInsertSorted(CoreSortSignals(SubSeq(sigs, 1, Len(sigs) - 1)), sigs[Len(sigs)])

RECURSIVE Gcd(_, _)
Gcd(a, b) == IF b = 0 THEN a ELSE Gcd(b, a % b)

\* (part / whole) * 100, whole > 0, in lowest terms
Percent(part, whole) ==
  LET g == Gcd(Abs(part) * 100, whole)
  IN  Ratio((part * 100) \div g, whole \div g)

\* a > b on quotients with positive denominators
GreaterRatio(a, b) == a.num * b.den > b.num * a.den

\* The locals of runBacktestCore before its first statement: those of
\* runBacktest, with the drawdowns held as percentages, and with onProgress
\* (whether the callback was supplied) and notified (the calls made of it)
CoreInitRun(seed, wallClock, onProgress) ==
  [pc |-> "start", seed |-> seed, wallClock |-> wallClock, uuids |-> 0,
   error |-> "", result |-> null,
   startTime |-> 0, sortedSignals |-> <<>>, trades |-> <<>>, equityCurve |-> <<>>,
   balance |-> 0, equity |-> 0, maxEquity |-> 0, maxBalance |-> 0,
   maxDrawdownEquity |-> Ratio(0, 1), maxDrawdownBalance |-> Ratio(0, 1),
   openTrades |-> <<>>, signalIndex |-> 0, tickCount |-> 0,
   firstTickTime |-> null, lastTickTime |-> null,
   tick |-> NoTick, queue |-> <<>>, tradesToClose |-> <<>>,
   onProgress |-> onProgress, notified |-> <<>>]

CoreNoTimestampsMessage == "No signals with timestamps found"

\* runBacktestCore up to the tick loop
CoreStart(st, sigs, risk) ==
  IF Len(sigs) = 0 THEN Throw(st, NoSignalsMessage)
  ELSE
    LET sorted == CoreSortSignals(FilterTimestamped(sigs))
        balance == risk.initialBalance
    IN  IF Len(sorted) = 0 THEN Throw(st, CoreNoTimestampsMessage)
        ELSE [st EXCEPT !.pc = "pull",
                        !.sortedSignals = sorted,
                        !.startTime = st.wallClock,
                        !.balance = balance,
                        !.equity = balance,
                        !.maxEquity = balance,
                        !.maxBalance = balance,
                        !.equityCurve = <<[time |-> st.wallClock, equity |-> balance,
                                           balance |-> balance]>>]

\* the lot size the core gives a signal opened on tick
CoreEntryLotSize(signal, tick, balance, risk) ==
  LET entryPrice == IF signal.direction = "buy" THEN tick.ask ELSE tick.bid
      slPips == Abs(calculatePips(entryPrice, signal.stopLoss, signal.direction, signal.symbol))
  IN  CoreCalculateLotSize(risk, balance, slPips)

\* the OpenTrade the core opens a signal as
CoreNewOpenTrade(signal, tick, balance, risk) ==
  LET entryPrice == IF signal.direction = "buy" THEN tick.ask ELSE tick.bid
      lotSize == CoreEntryLotSize(signal, tick, balance, risk).val
  IN  [signalId |-> signal.id, signal |-> signal,
       entryPrice |-> entryPrice, entryTime |-> tick.timestamp,
       currentSL |-> signal.stopLoss,
       initialLotSize |-> lotSize, remainingLots |-> lotSize,
       highestPrice |-> entryPrice, lowestPrice |-> entryPrice,
       tpHits |-> <<>>, realizedProfit |-> 0, weightedPips |-> 0]

\* while (signalIndex < sortedSignals.length) of the core
RECURSIVE CoreOpenDueSignals(_, _, _)
CoreOpenDueSignals(st, tick, risk) ==
  IF st.signalIndex < Len(st.sortedSignals)
  THEN LET signal == st.sortedSignals[st.signalIndex + 1]
           signalTime == CoreParseSignalTimestamp(signal.timestamp)
       IN  IF tick.timestamp >= signalTime
           THEN CoreOpenDueSignals(
                  [st EXCEPT !.openTrades = MapSet(@, CoreNewOpenTrade(signal, tick, st.balance, risk)),
                             !.signalIndex = @ + 1],
                  tick, risk)
           ELSE st
  ELSE st

\* Notify with the callback called on every tick
NotifyEveryTick(st) ==
  IF st.onProgress
  THEN [st EXCEPT !.notified = Append(@, [ticksProcessed |-> st.tickCount,
                                          tradesCompleted |-> Len(st.trades),
                                          openTrades |-> Len(st.openTrades)])]
  ELSE st

\* if (tickCount % progressInterval === 0 && onProgress) onProgress({...})
Notify(st) ==
  IF st.tickCount % progressInterval = 0 /\ st.onProgress
  THEN [st EXCEPT !.notified = Append(@, [ticksProcessed |-> st.tickCount,
                                          tradesCompleted |-> Len(st.trades),
                                          openTrades |-> Len(st.openTrades)])]
  ELSE st

\* one iteration of for await (const tick of tickGenerator) up to the loop
\* over the open trades
CoreNextTick(st, tick, risk) ==
  LET counted == [st EXCEPT !.firstTickTime = IF @ = null THEN <<tick.timestamp>> ELSE @,
                            !.lastTickTime = <<tick.timestamp>>,
                            !.tickCount = @ + 1,
                            !.tick = tick]
      opened == CoreOpenDueSignals(Notify(counted), tick, risk)
  IN  [opened EXCEPT !.pc = "eval",
                     !.tradesToClose = <<>>,
                     !.queue = EntryIds(opened.openTrades)]

\* price: the bid for a buy, the ask for a sell
CorePrice(trade, tick) == IF trade.signal.direction = "buy" THEN tick.bid ELSE tick.ask

\* both extremes follow the price, then the stop trails
CoreAdjustTrade(trade, tick, strat) ==
  LET price == CorePrice(trade, tick)
      moved == [trade EXCEPT !.highestPrice = Max(@, price), !.lowestPrice = Min(@, price)]
      trailDistance == strat.trailingPips * getPipValue(trade.signal.symbol)
  IN  IF strat.trailingSL /\ strat.trailingPips # 0
      THEN IF trade.signal.direction = "buy"
           THEN LET newSL == moved.highestPrice - trailDistance
                IN  IF newSL > moved.currentSL THEN [moved EXCEPT !.currentSL = newSL]
                    ELSE moved
           ELSE LET newSL == moved.lowestPrice + trailDistance
                IN  IF newSL < moved.currentSL THEN [moved EXCEPT !.currentSL = newSL]
                    ELSE moved
      ELSE moved

\* the stop-loss conditions of the core
CoreStopLossHit(trade, tick) ==
  \/ trade.signal.direction = "buy" /\ CorePrice(trade, tick) <= trade.currentSL
  \/ trade.signal.direction = "sell" /\ CorePrice(trade, tick) >= trade.currentSL

\* the indexes (from 0) the loop over takeProfits stops at: active, not yet
\* hit, and hit by the price
CoreHitIndexes(trade, tick, strat) ==
  {tpIndex \in 0..(Len(trade.signal.takeProfits) - 1) :
     /\ ~Includes(trade.tpHits, tpIndex)
     /\ Includes(strat.activeTPs, tpIndex + 1)
     /\ LET tp == trade.signal.takeProfits[tpIndex + 1]
        IN  IF trade.signal.direction = "buy" THEN CorePrice(trade, tick) >= tp
            ELSE CorePrice(trade, tick) <= tp}

\* (["tp1", "tp2", "tp3", "tp4"])[tpIndex] || "tp1"
CoreTpReason(tpIndex) == IF tpIndex < 4 THEN TpReason(tpIndex + 1) ELSE "tp1"

\* the running maxima, and the drawdowns in percent of the maximum
CoreTrackDrawdown(st) ==
  LET maxEquity == Max(st.maxEquity, st.equity)
      maxBalance == Max(st.maxBalance, st.balance)
      ddEquity == IF maxEquity > 0 THEN Percent(maxEquity - st.equity, maxEquity)
                  ELSE Ratio(0, 1)
      ddBalance == IF maxBalance > 0 THEN Percent(maxBalance - st.balance, maxBalance)
                   ELSE Ratio(0, 1)
  IN  [st EXCEPT !.maxEquity = maxEquity,
                 !.maxBalance = maxBalance,
                 !.maxDrawdownEquity = IF GreaterRatio(ddEquity, @) THEN ddEquity ELSE @,
                 !.maxDrawdownBalance = IF GreaterRatio(ddBalance, @) THEN ddBalance ELSE @]

\* if (closeReason): the remaining lots are closed at exitPrice, one trade
\* record and one equity point are appended and the trade is listed for
\* deletion
CoreCloseTrade(st, trade, exitPrice, closeReason) ==
  LET signal == trade.signal
      pips == calculatePips(trade.entryPrice, exitPrice, signal.direction, signal.symbol)
      profit == calculateProfit(pips, trade.remainingLots)
      paid == CoreTrackDrawdown([PutTrade(st, trade) EXCEPT !.balance = @ + profit,
                                                            !.equity = st.balance + profit])
  IN  [paid EXCEPT
         !.trades = Append(@, [id |-> randomUUID(st),
                               signalId |-> trade.signalId,
                               symbol |-> signal.symbol,
                               direction |-> signal.direction,
                               entryPrice |-> trade.entryPrice,
                               entryTime |-> trade.entryTime,
                               exitPrice |-> exitPrice,
                               exitTime |-> st.tick.timestamp,
                               exitReason |-> closeReason,
                               lotSize |-> trade.remainingLots,
                               pips |-> pips * WeightScale,
                               profit |-> profit,
                               balance |-> paid.balance,
                               equity |-> paid.equity]),
         !.uuids = @ + 1,
         !.equityCurve = Append(@, [time |-> st.tick.timestamp, equity |-> paid.equity,
                                    balance |-> paid.balance]),
         !.tradesToClose = Append(@, trade.signalId)]

\* the body of for (const [tradeId, trade] of Array.from(openTrades.entries()))
\* of the core, for the first entry not yet visited
CoreEvalTrade(st, strat) ==
  LET tradeId == Head(st.queue)
      trade == CoreAdjustTrade(st.openTrades[IndexOfTrade(st.openTrades, tradeId)], st.tick, strat)
      visited == [st EXCEPT !.queue = Tail(@)]
      hits == CoreHitIndexes(trade, st.tick, strat)
  IN  IF CoreStopLossHit(trade, st.tick)
      THEN CoreCloseTrade(visited, trade, trade.currentSL, "sl")
      ELSE IF strat.useMultipleTPs /\ hits # {}
      THEN LET tpIndex == CHOOSE i \in hits : \A j \in hits : i <= j
               marked == [trade EXCEPT !.tpHits = Append(@, tpIndex)]
               moved == IF strat.moveSLToEntry /\ strat.moveSLAfterTP = tpIndex + 1
                        THEN [marked EXCEPT !.currentSL = trade.entryPrice]
                        ELSE marked
           IN  CoreCloseTrade(visited, moved, trade.signal.takeProfits[tpIndex + 1],
                              CoreTpReason(tpIndex))
      ELSE PutTrade(visited, trade)

\* the end of the core's iteration: the closed trades are deleted and the
\* next tick is asked for
CoreEndTick(st) ==
  [st EXCEPT !.openTrades = DeleteClosed(st.openTrades, st.tradesToClose),
             !.tick = NoTick,
             !.tradesToClose = <<>>,
             !.pc = "pull"]

\* the trade records of the trades still open after the loop, exitTime
\* new Date()
RECURSIVE CoreOpenRecords(_, _, _)
CoreOpenRecords(st, openTrades, now) ==
  IF openTrades = <<>> THEN st
  ELSE LET trade == Head(openTrades)
       IN  CoreOpenRecords(
             [st EXCEPT !.trades = Append(@, [id |-> randomUUID(st),
                                              signalId |-> trade.signalId,
                                              symbol |-> trade.signal.symbol,
                                              direction |-> trade.signal.direction,
                                              entryPrice |-> trade.entryPrice,
                                              entryTime |-> trade.entryTime,
                                              exitPrice |-> trade.entryPrice,
                                              exitTime |-> now,
                                              exitReason |-> "open",
                                              lotSize |-> trade.remainingLots,
                                              pips |-> 0,
                                              profit |-> 0,
                                              balance |-> st.balance,
                                              equity |-> st.equity]),
                        !.uuids = @ + 1],
             Tail(openTrades), now)

\* the BacktestResults object of the core
CoreResults(st, risk, endTime) ==
  LET trades == st.trades
      winningTrades == SelectSeq(trades, LAMBDA t : t.profit > 0 /\ t.exitReason # "open")
      losingTrades == SelectSeq(trades, LAMBDA t : t.profit < 0)
      closedTrades == SelectSeq(trades, LAMBDA t : t.exitReason # "open")
      grossProfit == SeqSum(Profits(winningTrades))
      grossLoss == Abs(SeqSum(Profits(losingTrades)))
  IN  [id |-> randomUUID(st),
       startTime |-> st.startTime,
       endTime |-> endTime,
       initialBalance |-> risk.initialBalance,
       finalBalance |-> st.balance,
       totalTrades |-> Len(closedTrades),
       winningTrades |-> Len(winningTrades),
       losingTrades |-> Len(losingTrades),
       winRate |-> IF Len(closedTrades) > 0
                   THEN Ratio(Len(winningTrades) * 100, Len(closedTrades))
                   ELSE Ratio(0, 1),
       totalPips |-> SeqSum([i \in 1..Len(trades) |-> trades[i].pips]),
       maxDrawdownEquity |-> st.maxDrawdownEquity,
       maxDrawdownEquityPercent |-> st.maxDrawdownEquity,
       maxDrawdownBalance |-> st.maxDrawdownBalance,
       maxDrawdownBalancePercent |-> st.maxDrawdownBalance,
       profitFactor |-> IF grossLoss > 0 THEN Ratio(grossProfit, grossLoss)
                        ELSE IF grossProfit > 0 THEN Ratio(ProfitFactorSentinel, 1)
                        ELSE Ratio(0, 1),
       averageWin |-> IF Len(winningTrades) > 0 THEN Ratio(grossProfit, Len(winningTrades))
                      ELSE Ratio(0, 1),
       averageLoss |-> IF Len(losingTrades) > 0 THEN Ratio(grossLoss, Len(losingTrades))
                       ELSE Ratio(0, 1),
       largestWin |-> IF Len(winningTrades) > 0 THEN SeqMax(Profits(winningTrades)) ELSE 0,
       largestLoss |-> IF Len(losingTrades) > 0
                       THEN SeqMax([i \in 1..Len(losingTrades) |-> Abs(losingTrades[i].profit)])
                       ELSE 0,
       trades |-> trades,
       equityCurve |-> st.equityCurve]

\* runBacktestCore after the loop: the open trades are recorded and the
\* result is returned; new Date() reads now for the records and for endTime
CoreFinish(st, risk, now) ==
  LET recorded == CoreOpenRecords(st, st.openTrades, now)
  IN  [recorded EXCEPT !.pc = "done", !.result = <<CoreResults(recorded, risk, now)>>,
                       !.uuids = @ + 1]

\* ------------------------------------------------------------- inputs
\* the two characters of n, 0 <= n <= 99, and the four of a year
D2(n) == <<Digits[(n \div 10) + 1], Digits[(n % 10) + 1]>>

D4(n) == D2(n \div 100) \o D2(n % 100)

\* the signal timestamp "2024-01-01 00:00:0k" and the instant it names
SignalTs(k) == [kind |-> "text", date |-> <<D4(2024), D2(1), D2(1)>>,
                time |-> <<D2(0), D2(0), D2(k)>>]

TickTime(k) == NewDate(2024, 0, 1, 0, 0, k)

NoTimestamp == [kind |-> "undefined"]

EmptyTimestamp == [kind |-> "empty"]

\* ParsedSignal records; prices in pips of the symbol, times the pip in points
Signal(id, symbol, direction, entry, sl, tps, timestamp) ==
  LET u == getPipValue(symbol)
  IN  [id |-> id, symbol |-> symbol, direction |-> direction,
       entryPrice |-> entry * u, stopLoss |-> sl * u,
       takeProfits |-> [i \in 1..Len(tps) |-> tps[i] * u],
       timestamp |-> timestamp]

BuySignal == Signal("s1", "EURUSD", "buy", 3, 2, <<4, 5, 6>>, SignalTs(2))

SellSignal == Signal("s2", "EURUSD", "sell", 4, 5, <<3, 2, 1>>, SignalTs(1))

UntimedSignal == Signal("s3", "EURUSD", "buy", 3, 2, <<4>>, NoTimestamp)

EmptyTimedSignal == Signal("s4", "EURUSD", "sell", 4, 5, <<3>>, EmptyTimestamp)

YenSignal == Signal("s5", "USDJPY", "buy", 3, 2, <<4, 5>>, SignalTs(1))

\* a second signal of the trigger time of SellSignal, later in the input
EarlySignal == Signal("s7", "EURUSD", "buy", 3, 2, <<4>>, SignalTs(1))

\* the timestamp "tba": present, with no numeric component
GarbledTimestamp == [kind |-> "text", date |-> <<<<"t", "b", "a">>>>, time |-> <<>>]

GarbledSignal == Signal("s6", "EURUSD", "buy", 3, 2, <<4>>, GarbledTimestamp)

SignalLists ==
  { <<>>,
    <<UntimedSignal>>,
    <<UntimedSignal, EmptyTimedSignal>>,
    <<BuySignal>>,
    <<SellSignal>>,
    <<BuySignal, SellSignal>>,
    <<UntimedSignal, BuySignal>>,
    <<YenSignal>> }

\* StrategyConfig records; an optional number that is left out is 0
BaseStrategy ==
  [moveSLToEntry |-> FALSE, moveSLAfterTP |-> 0, moveSLAfterPips |-> 0,
   trailingSL |-> FALSE, trailingPips |-> 0,
   useMultipleTPs |-> TRUE, activeTPs |-> <<1>>,
   closePartials |-> FALSE, partialClosePercent |-> 25, closeAllOnTP |-> 0]

PartialStrategy ==
  [BaseStrategy EXCEPT !.activeTPs = <<1, 2, 3>>, !.closePartials = TRUE,
                       !.partialClosePercent = 50]

TrailingStrategy == [BaseStrategy EXCEPT !.trailingSL = TRUE, !.trailingPips = 1]

Strategies ==
  { BaseStrategy,
    [BaseStrategy EXCEPT !.activeTPs = <<1, 2>>],
    [BaseStrategy EXCEPT !.activeTPs = <<2>>],
    PartialStrategy,
    [BaseStrategy EXCEPT !.activeTPs = <<1, 2, 3>>, !.closePartials = TRUE,
                         !.moveSLToEntry = TRUE, !.moveSLAfterTP = 1],
    [BaseStrategy EXCEPT !.activeTPs = <<1, 2, 3>>, !.closePartials = TRUE,
                         !.partialClosePercent = 50, !.closeAllOnTP = 2],
    TrailingStrategy,
    [BaseStrategy EXCEPT !.activeTPs = <<1, 2>>, !.closePartials = TRUE,
                         !.partialClosePercent = 100, !.trailingSL = TRUE,
                         !.trailingPips = 2],
    [TrailingStrategy EXCEPT !.activeTPs = <<1, 2, 3>>, !.moveSLToEntry = TRUE,
                             !.moveSLAfterTP = 1],
    [BaseStrategy EXCEPT !.activeTPs = <<2>>, !.moveSLToEntry = TRUE,
                         !.moveSLAfterPips = 1] }

\* RiskConfig records; an optional number that is left out is 0
BaseRisk ==
  [initialBalance |-> 100 * Dollar, riskType |-> "percentage", riskPercentage |-> 1,
   fixedLotSize |-> 0, ruleBasedAmount |-> 0, ruleBasedLot |-> 0]

RiskConfigs ==
  { BaseRisk,
    [BaseRisk EXCEPT !.riskType = "fixed_lot", !.fixedLotSize = 2 * LotUnit],
    [BaseRisk EXCEPT !.riskType = "rule_based", !.ruleBasedAmount = 40 * Dollar,
                     !.ruleBasedLot = LotUnit] }

\* the pip, in points, of the prices of the run's tick stream
PriceUnit(sigs) == IF sigs = <<>> THEN 1 ELSE getPipValue(sigs[1].symbol)

\* the ticks a stream may deliver: bid on the pip grid, a spread of 0 or 1 pip
Ticks(sigs) ==
  {[timestamp |-> TickTime(k), bid |-> b * PriceUnit(sigs), ask |-> (b + sp) * PriceUnit(sigs)] :
     k \in 1..2, b \in 1..MaxPrice, sp \in 0..1}

\* ------------------------------------------------------------ tick files
\* A line of a tick file is the sequence of its characters.
PointsPerUnit == 10^4

IsSpace(c) == c \in {" ", "\t", "\r"}

RECURSIVE trimStart(_)
trimStart(str) ==
  IF str # <<>> /\ IsSpace(Head(str)) THEN trimStart(Tail(str)) ELSE str

RECURSIVE trimEnd(_)
trimEnd(str) ==
  IF str # <<>> /\ IsSpace(str[Len(str)])
  THEN trimEnd(SubSeq(str, 1, Len(str) - 1))
  ELSE str

\* String.prototype.trim
trim(str) == trimEnd(trimStart(str))

RECURSIVE SplitFrom(_, _, _, _)
SplitFrom(str, seps, done, part) ==
  IF str = <<>> THEN Append(done, part)
  ELSE IF Head(str) \in seps
       THEN SplitFrom(Tail(str), seps, Append(done, part), <<>>)
       ELSE SplitFrom(Tail(str), seps, done, Append(part, Head(str)))

\* String.prototype.split on any one of the separator characters
split(str, seps) == SplitFrom(str, seps, <<>>, <<>>)

\* the digits at the head of str
RECURSIVE DigitRun(_)
DigitRun(str) ==
  IF str = <<>> \/ ~IsDigit(Head(str)) THEN <<>>
  ELSE <<Head(str)>> \o DigitRun(Tail(str))

StartsWith(str, prefix) ==
  Len(str) >= Len(prefix) /\ SubSeq(str, 1, Len(prefix)) = prefix

\* parseFloat, in points: the longest decimal literal at the head of the
\* string after leading white space, whatever follows it; NaN when the string
\* begins with none. (No column of the files below has an exponent or more
\* than four decimals.)
parseFloat(str) ==
  LET s == trimStart(str)
      negative == s # <<>> /\ Head(s) = "-"
      body == IF s # <<>> /\ Head(s) \in {"+", "-"} THEN Tail(s) ELSE s
      whole == DigitRun(body)
      rest == SubSeq(body, Len(whole) + 1, Len(body))
      fraction == IF rest # <<>> /\ Head(rest) = "." THEN DigitRun(Tail(rest)) ELSE <<>>
      decimals == SubSeq(fraction \o <<"0", "0", "0", "0">>, 1, 4)
      points == LeadingDigits(whole, 0) * PointsPerUnit + LeadingDigits(decimals, 0)
  IN  IF StartsWith(body, <<"I", "n", "f", "i", "n", "i", "t", "y">>)
      THEN IF negative THEN NegInfinity ELSE Infinity
      ELSE IF whole = <<>> /\ fraction = <<>> THEN NaN
      ELSE Num(IF negative THEN -points ELSE points)

isNaN(x) == x.kind = "NaN"

\* parseInt(parts[i]) || fallback
ParseIntOr(parts, i, fallback) == OrElse(ParseIntOr0(parts, i), fallback)

\* parseTimestamp of a tick's date and time columns
parseTimestamp(dateStr, timeStr, dateFormat, timeFormat) ==
  LET parts == split(dateStr, {"-", ".", "/"})
      ymd == dateFormat \in {"YYYY-MM-DD", "YYYY.MM.DD"}
      dmy == dateFormat = "DD/MM/YYYY"
      mdy == dateFormat = "MM/DD/YYYY"
      year == IF ymd THEN ParseIntOr(parts, 1, FallbackYear)
              ELSE IF dmy \/ mdy THEN ParseIntOr(parts, 3, FallbackYear)
              ELSE FallbackYear
      month == IF ymd \/ dmy THEN ParseIntOr(parts, 2, 1)
               ELSE IF mdy THEN ParseIntOr(parts, 1, 1)
               ELSE 1
      day == IF ymd THEN ParseIntOr(parts, 3, 1)
             ELSE IF dmy THEN ParseIntOr(parts, 1, 1)
             ELSE IF mdy THEN ParseIntOr(parts, 2, 1)
             ELSE 1
      timeParts == split(timeStr, {":", "."})
  IN  NewDate(year, month - 1, day, ParseIntOr0(timeParts, 1),
              ParseIntOr0(timeParts, 2), ParseIntOr0(timeParts, 3))

\* cols[index]?.trim() || "" (the columns are counted from 0)
Column(cols, index) == IF index + 1 <= Len(cols) THEN trim(cols[index + 1]) ELSE <<>>

\* one pass of the loop of streamTicks over a line: <<the tick it yields>>,
\* null when the line is skipped
ReadTick(line, lineNumber, tickFormat) ==
  LET cols == split(line, {tickFormat.delimiter})
      dateStr == Column(cols, tickFormat.dateColumn)
      timeStr == Column(cols, tickFormat.timeColumn)
      bid == parseFloat(Column(cols, tickFormat.bidColumn))
      ask == parseFloat(Column(cols, tickFormat.askColumn))
  IN  IF lineNumber = 1 /\ tickFormat.hasHeader THEN null
      ELSE IF trim(line) = <<>> THEN null
      ELSE IF isNaN(bid) \/ isNaN(ask) THEN null
      ELSE <<[timestamp |-> parseTimestamp(dateStr, timeStr, tickFormat.dateFormat,
                                           tickFormat.timeFormat),
              bid |-> bid, ask |-> ask]>>

\* TickFormat records
TickFormats ==
  {[dateColumn |-> 0, timeColumn |-> 1, bidColumn |-> 2, askColumn |-> 3,
    delimiter |-> ",", dateFormat |-> "YYYY.MM.DD", timeFormat |-> "HH:mm:ss",
    hasHeader |-> h] : h \in BOOLEAN}

\* the text of a price of p points, "0.000p"
PriceText(p) == <<"0", ".">> \o D4(p)

DateText == D4(2024) \o <<".">> \o D2(1) \o <<".">> \o D2(1)

TimeText(k) == D2(0) \o <<":">> \o D2(0) \o <<":">> \o D2(k)

Comma == <<",">>

\* "2024.01.01,00:00:0k,<bid>,<ask>"
TickLine(k, bid, ask) ==
  DateText \o Comma \o TimeText(k) \o Comma \o PriceText(bid) \o Comma \o PriceText(ask)

HeaderLine ==
  <<"D", "a", "t", "e", ",", "T", "i", "m", "e", ",", "B", "i", "d", ",", "A", "s", "k">>

\* the lines a tick file may hold: ticks below, at and above the levels of
\* the signal, a tick written with white space around its columns, a tick
\* whose date is not one, and lines that carry no tick: an empty and a blank
\* line, a line cut short, and lines whose bid or ask is no number
FilePrices == {2, 4, MaxPrice}

Lines ==
  { TickLine(k, b, b) : k \in 1..2, b \in FilePrices }
  \cup { HeaderLine,
         <<>>,
         <<" ", "\r">>,
         DateText \o Comma \o TimeText(1),
         DateText \o Comma \o TimeText(1) \o Comma \o PriceText(4) \o Comma,
         DateText \o Comma \o TimeText(1) \o Comma \o <<"n", "/", "a">> \o Comma \o PriceText(4),
         DateText \o Comma \o TimeText(2) \o Comma \o PriceText(4) \o <<"x">> \o Comma \o PriceText(4),
         <<" ">> \o DateText \o Comma \o TimeText(2) \o <<" ", ",", " ">> \o PriceText(4)
           \o <<" ">> \o Comma \o PriceText(4) \o <<"\r">>,
         <<"t", "b", "a">> \o Comma \o TimeText(2) \o Comma \o PriceText(2) \o Comma \o PriceText(2) }

\* a tick file that is being read: the lines read so far and the ticks they gave
OpenFile(tickFormat) ==
  [kind |-> "file", tickFormat |-> tickFormat, lineNumber |-> 0, lines |-> <<>>,
   delivered |-> <<>>]

\* ------------------------------------------------------- specification
VARIABLES signals, strategy, riskConfig, firstTouch, run, run2, calc, source, cancelRequested, ipc

vars == <<signals, strategy, riskConfig, firstTouch, run, run2, calc, source, cancelRequested, ipc>>

\* what new Date() reads when a run starts
WallClock == NewDate(2026, 10, 1, 12, 0, 0)

NoCalc == [op |-> "none"]

\* source is the tick file being read (NoSource when the ticks are given as
\* such); cancelRequested is whether the caller has asked the run to stop
NoSource == [kind |-> "none"]

\* ipc is the channel of "backtest:progress" messages from the handler of
\* backtest:run to the window: those in flight, the last one the window got,
\* and how many were lost on the way
NoMessages == [inFlight |-> <<>>, shown |-> <<>>, lost |-> 0]

\* which of its first take-profit level ("tp") and its stop ("sl") the tick
\* reaches for signal s, "none" when neither
Touch(s, tick) ==
  LET price == IF s.direction = "buy" THEN tick.bid ELSE tick.ask
      sign == IF s.direction = "buy" THEN 1 ELSE -1
  IN  IF sign * price >= sign * s.takeProfits[1] THEN "tp"
      ELSE IF sign * price <= sign * s.stopLoss THEN "sl"
      ELSE "none"

NoTouch == [any |-> "none", due |-> "none"]

\* firstTouch is history: what the tick stream reached first for the first
\* signal of the list, among all ticks pulled (any) and among those at or
\* after the signal's trigger time (due)
Touched(before, sigs, tick) ==
  IF sigs = <<>> THEN before
  ELSE IF ~HasTimestamp(sigs[1]) THEN before
  ELSE [any |-> IF before.any # "none" THEN before.any ELSE Touch(sigs[1], tick),
        due |-> IF before.due # "none" THEN before.due
                ELSE IF tick.timestamp >= parseSignalTimestamp(sigs[1].timestamp)
                THEN Touch(sigs[1], tick)
                ELSE "none"]

\* the runs explored: every signal list under every strategy with the
\* percentage sizing, the other sizings under three strategies, a signal with
\* a garbled timestamp, and three signals of which two share a trigger time
Scenarios ==
  (SignalLists \X Strategies \X {BaseRisk})
    \cup ({<<BuySignal>>, <<BuySignal, SellSignal>>}
            \X {BaseStrategy, PartialStrategy, TrailingStrategy}
            \X (RiskConfigs \ {BaseRisk}))
    \cup {<<<<GarbledSignal>>, BaseStrategy, BaseRisk>>,
          <<<<BuySignal, SellSignal, EarlySignal>>, BaseStrategy, BaseRisk>>}

Init ==
  /\ \E sc \in Scenarios :
       /\ signals = sc[1]
       /\ strategy = sc[2]
       /\ riskConfig = sc[3]
  /\ firstTouch = NoTouch
  /\ run = InitRun(1, WallClock)
  /\ run2 = InitRun(2, WallClock)
  /\ calc = NoCalc
  /\ source = NoSource
  /\ cancelRequested = FALSE
  /\ ipc = NoMessages

\* every signal the tick would open is given a finite lot size: a tick whose
\* entry price equals the stop of a signal sized by percentage is left out
FiniteSizing(st, tick, risk) ==
  \A i \in (st.signalIndex + 1)..Len(st.sortedSignals) :
    tick.timestamp >= parseSignalTimestamp(st.sortedSignals[i].timestamp)
      => IsFinite(EntryLotSize(st.sortedSignals[i], tick, st.balance, risk))

\* ticks arrive in the order of their time
Chronological(st, tick) ==
  IF st.lastTickTime = null THEN TRUE ELSE tick.timestamp >= st.lastTickTime[1]

\* the run from the loop's exit to its return or throw; new Date() reads a
\* later clock than at the start
LeaveLoop(st, risk) == Finish([st EXCEPT !.pc = "finish"], risk, st.wallClock + 1)

StartRun ==
  /\ run.pc = "start"
  /\ run' = Start(run, signals, riskConfig)
  /\ UNCHANGED <<signals, strategy, riskConfig, firstTouch, run2, calc, source, cancelRequested, ipc>>

PullTick ==
  /\ run.pc = "pull"
  /\ run.tickCount < MaxTicks
  /\ \E tick \in Ticks(signals) :
       /\ Chronological(run, tick)
       /\ FiniteSizing(run, tick, riskConfig)
       /\ run' = NextTick(run, tick, riskConfig)
       /\ firstTouch' = Touched(firstTouch, signals, tick)
  /\ UNCHANGED <<signals, strategy, riskConfig, run2, calc, source, cancelRequested, ipc>>

\* the tick stream is exhausted
StreamEnd ==
  /\ run.pc = "pull"
  /\ run' = LeaveLoop(run, riskConfig)
  /\ UNCHANGED <<signals, strategy, riskConfig, firstTouch, run2, calc, source, cancelRequested, ipc>>

Evaluate ==
  /\ run.pc = "eval"
  /\ run.queue # <<>>
  /\ run' = EvalTrade(run, strategy)
  /\ UNCHANGED <<signals, strategy, riskConfig, firstTouch, run2, calc, source, cancelRequested, ipc>>

\* the end of the iteration, and of the run when the loop breaks
FinishTick ==
  /\ run.pc = "eval"
  /\ run.queue = <<>>
  /\ run' = IF EndTick(run).pc = "finish" THEN LeaveLoop(EndTick(run), riskConfig)
            ELSE EndTick(run)
  /\ UNCHANGED <<signals, strategy, riskConfig, firstTouch, run2, calc, source, cancelRequested, ipc>>

Next == StartRun \/ PullTick \/ StreamEnd \/ Evaluate \/ FinishTick

Spec == Init /\ [][Next]_vars

\* ----------------------------------------- two runs on the same inputs
\* run2 is a second call of runBacktest with the arguments and the tick
\* stream of run, made a minute later; the two advance together
InitTwoRuns ==
  /\ \E sc \in Scenarios :
       /\ signals = sc[1]
       /\ strategy = sc[2]
       /\ riskConfig = sc[3]
  /\ firstTouch = NoTouch
  /\ run = InitRun(1, WallClock)
  /\ run2 = InitRun(2, WallClock + 60)
  /\ calc = NoCalc
  /\ source = NoSource
  /\ cancelRequested = FALSE
  /\ ipc = NoMessages

StartBoth ==
  /\ run.pc = "start" /\ run2.pc = "start"
  /\ run' = Start(run, signals, riskConfig)
  /\ run2' = Start(run2, signals, riskConfig)
  /\ UNCHANGED <<signals, strategy, riskConfig, firstTouch, calc, source, cancelRequested, ipc>>

PullBoth ==
  /\ run.pc = "pull" /\ run2.pc = "pull"
  /\ run.tickCount < MaxTicks
  /\ \E tick \in Ticks(signals) :
       /\ Chronological(run, tick)
       /\ FiniteSizing(run, tick, riskConfig)
       /\ FiniteSizing(run2, tick, riskConfig)
       /\ run' = NextTick(run, tick, riskConfig)
       /\ run2' = NextTick(run2, tick, riskConfig)
       /\ firstTouch' = Touched(firstTouch, signals, tick)
  /\ UNCHANGED <<signals, strategy, riskConfig, calc, source, cancelRequested, ipc>>

StreamEndBoth ==
  /\ run.pc = "pull" /\ run2.pc = "pull"
  /\ run' = LeaveLoop(run, riskConfig)
  /\ run2' = LeaveLoop(run2, riskConfig)
  /\ UNCHANGED <<signals, strategy, riskConfig, firstTouch, calc, source, cancelRequested, ipc>>

EvaluateBoth ==
  /\ run.pc = "eval" /\ run2.pc = "eval"
  /\ run.queue # <<>> /\ run2.queue # <<>>
  /\ run' = EvalTrade(run, strategy)
  /\ run2' = EvalTrade(run2, strategy)
  /\ UNCHANGED <<signals, strategy, riskConfig, firstTouch, calc, source, cancelRequested, ipc>>

FinishTickBoth ==
  /\ run.pc = "eval" /\ run2.pc = "eval"
  /\ run.queue = <<>> /\ run2.queue = <<>>
  /\ run' = IF EndTick(run).pc = "finish" THEN LeaveLoop(EndTick(run), riskConfig)
            ELSE EndTick(run)
  /\ run2' = IF EndTick(run2).pc = "finish" THEN LeaveLoop(EndTick(run2), riskConfig)
             ELSE EndTick(run2)
  /\ UNCHANGED <<signals, strategy, riskConfig, firstTouch, calc, source, cancelRequested, ipc>>

NextTwoRuns == StartBoth \/ PullBoth \/ StreamEndBoth \/ EvaluateBoth \/ FinishTickBoth

SpecTwoRuns == InitTwoRuns /\ [][NextTwoRuns]_vars

\* ------------------------------------------------- the pure functions
\* calc is one call of a pure function: its arguments and what it returned
\* RiskConfig records riskConfigSchema accepts, and one of a riskType it
\* does not; an optional number that is left out is 0
CalcRisks ==
  {[BaseRisk EXCEPT !.riskPercentage = p] : p \in {0, 1, 100}}
    \cup {[BaseRisk EXCEPT !.riskType = "fixed_lot", !.fixedLotSize = l] :
            l \in {0, LotUnit, 2 * LotUnit}}
    \cup {[BaseRisk EXCEPT !.riskType = "rule_based", !.ruleBasedAmount = a,
                           !.ruleBasedLot = l] :
            a \in {0, Dollar, 40 * Dollar}, l \in {0, LotUnit, 2 * LotUnit}}
    \cup {[BaseRisk EXCEPT !.riskType = "unknown"]}

\* balances: none, one cent, one dollar, thirty and a hundred dollars
CalcBalances == {0, LotUnit, Dollar, 30 * Dollar, 100 * Dollar}

InitCalc ==
  /\ signals = <<>>
  /\ strategy = BaseStrategy
  /\ riskConfig = BaseRisk
  /\ firstTouch = NoTouch
  /\ run = InitRun(1, WallClock)
  /\ run2 = InitRun(2, WallClock)
  /\ calc = NoCalc
  /\ source = NoSource
  /\ cancelRequested = FALSE
  /\ ipc = NoMessages

\* a call of calculateLotSize
SizeLot ==
  /\ calc = NoCalc
  /\ \E risk \in CalcRisks, balance \in CalcBalances, stopLossPips \in -1..MaxStopPips,
        symbol \in Symbols :
       calc' = [op |-> "calculateLotSize", riskConfig |-> risk, balance |-> balance,
                stopLossPips |-> stopLossPips, symbol |-> symbol,
                out |-> calculateLotSize(risk, balance, stopLossPips, symbol)]
  /\ UNCHANGED <<signals, strategy, riskConfig, firstTouch, run, run2, source, cancelRequested, ipc>>

\* a call of calculatePips on prices of the symbol's pip grid
CountPips ==
  /\ calc = NoCalc
  /\ \E entry \in 0..MaxPrice, exit \in 0..MaxPrice, direction \in {"buy", "sell"},
        symbol \in Symbols :
       calc' = [op |-> "calculatePips",
                entryPrice |-> entry * getPipValue(symbol),
                exitPrice |-> exit * getPipValue(symbol),
                direction |-> direction, symbol |-> symbol,
                out |-> calculatePips(entry * getPipValue(symbol), exit * getPipValue(symbol),
                                      direction, symbol)]
  /\ UNCHANGED <<signals, strategy, riskConfig, firstTouch, run, run2, source, cancelRequested, ipc>>

NextCalc == SizeLot \/ CountPips

SpecCalc == InitCalc /\ [][NextCalc]_vars

\* ------------------------------------------- a run over a tick file
\* runBacktest pulling its ticks from streamTicks: the file is any sequence
\* of at most MaxLines of the lines above
MaxLines == MaxTicks

FixedLotRisk == [BaseRisk EXCEPT !.riskType = "fixed_lot", !.fixedLotSize = 2 * LotUnit]

InitTicks ==
  /\ signals = <<BuySignal>>
  /\ strategy = BaseStrategy
  /\ riskConfig = FixedLotRisk
  /\ firstTouch = NoTouch
  /\ run = InitRun(1, WallClock)
  /\ run2 = InitRun(2, WallClock)
  /\ calc = NoCalc
  /\ \E tickFormat \in TickFormats : source = OpenFile(tickFormat)
  /\ cancelRequested = FALSE
  /\ ipc = NoMessages

\* the loop asks for the next tick and the generator reads one more line: it
\* skips the line, or yields its tick and the loop's body begins
ReadLine ==
  /\ run.pc = "pull"
  /\ source.kind = "file"
  /\ source.lineNumber < MaxLines
  /\ \E line \in Lines :
       LET lineNumber == source.lineNumber + 1
           read == ReadTick(line, lineNumber, source.tickFormat)
           tick == [timestamp |-> read[1].timestamp, bid |-> read[1].bid.val,
                    ask |-> read[1].ask.val]
       IN  IF read = null
           THEN /\ source' = [source EXCEPT !.lineNumber = lineNumber,
                                            !.lines = Append(@, line)]
                /\ UNCHANGED run
           ELSE /\ Chronological(run, tick)
                /\ source' = [source EXCEPT !.lineNumber = lineNumber,
                                            !.lines = Append(@, line),
                                            !.delivered = Append(@, tick)]
                /\ run' = NextTick(run, tick, riskConfig)
  /\ UNCHANGED <<signals, strategy, riskConfig, firstTouch, run2, calc, cancelRequested, ipc>>

NextTicks == StartRun \/ ReadLine \/ StreamEnd \/ Evaluate \/ FinishTick

SpecTicks == InitTicks /\ [][NextTicks]_vars

\* ------------------------------------------ a run its caller gives up
\* The caller of runBacktest may stop wanting the result while the run is
\* under way. runBacktest takes no argument through which it could be told,
\* and reads nothing of the kind: cancelRequested is the caller's alone.
InitCancel ==
  /\ signals \in {<<BuySignal>>, <<BuySignal, SellSignal>>}
  /\ strategy = BaseStrategy
  /\ riskConfig = BaseRisk
  /\ firstTouch = NoTouch
  /\ run = InitRun(1, WallClock)
  /\ run2 = InitRun(2, WallClock)
  /\ calc = NoCalc
  /\ source = NoSource
  /\ cancelRequested = FALSE
  /\ ipc = NoMessages

RequestCancel ==
  /\ ~cancelRequested
  /\ run.pc \in {"pull", "eval"}
  /\ cancelRequested' = TRUE
  /\ UNCHANGED <<signals, strategy, riskConfig, firstTouch, run, run2, calc, source, ipc>>

NextCancel == Next \/ RequestCancel

SpecCancel == InitCancel /\ [][NextCancel]_vars

\* ------------------------------------------------- a run of the core
CoreStrategies ==
  { BaseStrategy,
    [BaseStrategy EXCEPT !.activeTPs = <<1, 2>>],
    [BaseStrategy EXCEPT !.activeTPs = <<2>>],
    [BaseStrategy EXCEPT !.useMultipleTPs = FALSE],
    [BaseStrategy EXCEPT !.activeTPs = <<1, 2>>, !.moveSLToEntry = TRUE, !.moveSLAfterTP = 1],
    TrailingStrategy,
    [TrailingStrategy EXCEPT !.trailingPips = 2, !.activeTPs = <<2, 3>>],
    [TrailingStrategy EXCEPT !.activeTPs = <<3>>, !.moveSLToEntry = TRUE,
                             !.moveSLAfterTP = 3] }

CoreScenarios ==
  (SignalLists \X CoreStrategies \X {BaseRisk})
    \cup ({<<BuySignal>>, <<BuySignal, SellSignal>>}
            \X {BaseStrategy, TrailingStrategy}
            \X (RiskConfigs \ {BaseRisk}))
    \cup {<<<<GarbledSignal>>, BaseStrategy, BaseRisk>>}

InitCore ==
  /\ \E sc \in CoreScenarios :
       /\ signals = sc[1]
       /\ strategy = sc[2]
       /\ riskConfig = sc[3]
  /\ firstTouch = NoTouch
  /\ run = CoreInitRun(1, WallClock, TRUE)
  /\ run2 = CoreInitRun(1, WallClock, FALSE)
  /\ calc = NoCalc
  /\ source = NoSource
  /\ cancelRequested = FALSE
  /\ ipc = NoMessages

\* every signal the tick would open is given a finite lot size
CoreFiniteSizing(st, tick, risk) ==
  \A i \in (st.signalIndex + 1)..Len(st.sortedSignals) :
    tick.timestamp >= CoreParseSignalTimestamp(st.sortedSignals[i].timestamp)
      => IsFinite(CoreEntryLotSize(st.sortedSignals[i], tick, st.balance, risk))

\* the core from the loop's exit to its return; new Date() reads a later
\* clock than at the start
CoreLeaveLoop(st, risk) == CoreFinish(st, risk, st.wallClock + 1)

CoreStartRun ==
  /\ run.pc = "start"
  /\ run' = CoreStart(run, signals, riskConfig)
  /\ UNCHANGED <<signals, strategy, riskConfig, firstTouch, run2, calc, source, cancelRequested, ipc>>

CorePullTick ==
  /\ run.pc = "pull"
  /\ run.tickCount < MaxTicks
  /\ \E tick \in Ticks(signals) :
       /\ Chronological(run, tick)
       /\ CoreFiniteSizing(run, tick, riskConfig)
       /\ run' = CoreNextTick(run, tick, riskConfig)
  /\ UNCHANGED <<signals, strategy, riskConfig, firstTouch, run2, calc, source, cancelRequested, ipc>>

\* the tick generator is exhausted
CoreStreamEnd ==
  /\ run.pc = "pull"
  /\ run' = CoreLeaveLoop(run, riskConfig)
  /\ UNCHANGED <<signals, strategy, riskConfig, firstTouch, run2, calc, source, cancelRequested, ipc>>

CoreEvaluate ==
  /\ run.pc = "eval"
  /\ run.queue # <<>>
  /\ run' = CoreEvalTrade(run, strategy)
  /\ UNCHANGED <<signals, strategy, riskConfig, firstTouch, run2, calc, source, cancelRequested, ipc>>

CoreFinishTick ==
  /\ run.pc = "eval"
  /\ run.queue = <<>>
  /\ run' = CoreEndTick(run)
  /\ UNCHANGED <<signals, strategy, riskConfig, firstTouch, run2, calc, source, cancelRequested, ipc>>

NextCore == CoreStartRun \/ CorePullTick \/ CoreStreamEnd \/ CoreEvaluate \/ CoreFinishTick

SpecCore == InitCore /\ [][NextCore]_vars

\* ----------------------------------------------------- either engine
\* run is a call of runBacktest or a call of runBacktestCore
IsCore(st) == "onProgress" \in DOMAIN st

InitEngines == Init \/ InitCore

NextEngines ==
  \/ ~IsCore(run) /\ Next
  \/ IsCore(run) /\ NextCore

SpecEngines == InitEngines /\ [][NextEngines]_vars

\* ------------------------- the core with and without a progress callback
\* run is a call of runBacktestCore by the handler of backtest:run, whose
\* callback sends each progress object to the window; run2 is the same call
\* with the callback left out, on the same ticks and with the same draws of
\* crypto.randomUUID(). The first QuietTicks ticks of the stream are one tick
\* older than the signal, so that the count of ticks reaches progressInterval.
QuietTicks == progressInterval - 1

QuietTick == [timestamp |-> TickTime(1), bid |-> MaxPrice, ask |-> MaxPrice]

InitProgress ==
  /\ signals = <<BuySignal>>
  /\ strategy = BaseStrategy
  /\ riskConfig = BaseRisk
  /\ firstTouch = NoTouch
  /\ run = CoreInitRun(1, WallClock, TRUE)
  /\ run2 = CoreInitRun(1, WallClock, FALSE)
  /\ calc = NoCalc
  /\ source = NoSource
  /\ cancelRequested = FALSE
  /\ ipc = NoMessages

StartBothCores ==
  /\ run.pc = "start"
  /\ run' = CoreStart(run, signals, riskConfig)
  /\ run2' = CoreStart(run2, signals, riskConfig)
  /\ UNCHANGED <<signals, strategy, riskConfig, firstTouch, calc, source, cancelRequested, ipc>>

\* onProgress of the handler: event.sender.send("backtest:progress", progress)
Sent(before, after) ==
  SubSeq(after.notified, Len(before.notified) + 1, Len(after.notified))

\* the iteration on tick up to the loop over the open trades, and to its end
\* when no trade is open
Iterate(st, tick, risk) ==
  LET head == CoreNextTick(st, tick, risk)
  IN  IF head.queue = <<>> THEN CoreEndTick(head) ELSE head

PullBothCores ==
  /\ run.pc = "pull"
  /\ run2.pc = "pull"
  /\ run.tickCount < QuietTicks + MaxTicks
  /\ \E tick \in (IF run.tickCount < QuietTicks THEN {QuietTick} ELSE Ticks(signals)) :
       /\ Chronological(run, tick)
       /\ CoreFiniteSizing(run, tick, riskConfig)
       /\ run' = Iterate(run, tick, riskConfig)
       /\ run2' = Iterate(run2, tick, riskConfig)
       /\ ipc' = [ipc EXCEPT !.inFlight = @ \o Sent(run, Iterate(run, tick, riskConfig))]
  /\ UNCHANGED <<signals, strategy, riskConfig, firstTouch, calc, source, cancelRequested>>

StreamEndBothCores ==
  /\ run.pc = "pull"
  /\ run2.pc = "pull"
  /\ run.tickCount >= QuietTicks
  /\ run' = CoreLeaveLoop(run, riskConfig)
  /\ run2' = CoreLeaveLoop(run2, riskConfig)
  /\ UNCHANGED <<signals, strategy, riskConfig, firstTouch, calc, source, cancelRequested, ipc>>

EvaluateBothCores ==
  /\ run.pc = "eval"
  /\ run2.pc = "eval"
  /\ run.queue # <<>>
  /\ run2.queue # <<>>
  /\ run' = CoreEvalTrade(run, strategy)
  /\ run2' = CoreEvalTrade(run2, strategy)
  /\ UNCHANGED <<signals, strategy, riskConfig, firstTouch, calc, source, cancelRequested, ipc>>

FinishTickBothCores ==
  /\ run.pc = "eval"
  /\ run2.pc = "eval"
  /\ run.queue = <<>>
  /\ run2.queue = <<>>
  /\ run' = CoreEndTick(run)
  /\ run2' = CoreEndTick(run2)
  /\ UNCHANGED <<signals, strategy, riskConfig, firstTouch, calc, source, cancelRequested, ipc>>

\* the window receives the oldest message in flight
DeliverProgress ==
  /\ ipc.inFlight # <<>>
  /\ ipc' = [ipc EXCEPT !.inFlight = Tail(@), !.shown = <<Head(ipc.inFlight)>>]
  /\ UNCHANGED <<signals, strategy, riskConfig, firstTouch, run, run2, calc, source, cancelRequested>>

\* the oldest message in flight is lost
LoseProgress ==
  /\ ipc.inFlight # <<>>
  /\ ipc' = [ipc EXCEPT !.inFlight = Tail(@), !.lost = @ + 1]
  /\ UNCHANGED <<signals, strategy, riskConfig, firstTouch, run, run2, calc, source, cancelRequested>>

NextProgress ==
  \/ StartBothCores
  \/ PullBothCores
  \/ StreamEndBothCores
  \/ EvaluateBothCores
  \/ FinishTickBothCores
  \/ DeliverProgress
  \/ LoseProgress

SpecProgress == InitProgress /\ [][NextProgress]_vars

\* ---------------------------------------------------------------- claims
\* the open trade the loop visits next, as the stop-loss check will find it
NextTrade == AdjustTrade(run.openTrades[IndexOfTrade(run.openTrades, Head(run.queue))],
                         run.tick, strategy)

Visiting == run.pc = "eval" /\ run.queue # <<>>

\* the open trade with key id
OpenTradeOf(st, id) == st.openTrades[IndexOfTrade(st.openTrades, id)]

LastTrade(st) == st.trades[Len(st.trades)]

\* C1. Stop precedence: when a tick meets both the stop-loss condition of an
\* open trade (against its stop as adjusted on that tick) and the hit
\* condition of one of its active, not yet hit take-profit levels, the trade is
\* closed with exit reason sl or trailing_sl, and none of its levels is marked.
C1_StopPrecedence ==
  [][(/\ Visiting
      /\ StopLossHit(NextTrade, run.tick)
      /\ HitLevels(NextTrade, run.tick, strategy) # {})
     => (/\ Len(run'.trades) = Len(run.trades) + 1
         /\ LastTrade(run').signalId = Head(run.queue)
         /\ LastTrade(run').exitReason \in {"sl", "trailing_sl"}
         /\ OpenTradeOf(run', Head(run.queue)).tpHits = NextTrade.tpHits
         /\ Includes(run'.tradesToClose, Head(run.queue)))]_vars

\* C1 witness: a trade was just closed by its stop on a tick that also meets
\* the hit condition of one of its active, not yet hit levels
C1_Witness ==
  /\ run.pc = "eval"
  /\ run.trades # <<>>
  /\ LastTrade(run).exitReason \in {"sl", "trailing_sl"}
  /\ Includes(run.tradesToClose, LastTrade(run).signalId)
  /\ Len(run.tradesToClose) + Len(run.queue) = Len(run.openTrades)
  /\ run.tradesToClose[Len(run.tradesToClose)] = LastTrade(run).signalId
  /\ LET trade == OpenTradeOf(run, LastTrade(run).signalId)
     IN  /\ StopLossHit(trade, run.tick)
         /\ HitLevels(trade, run.tick, strategy) # {}

\* the sum of the lots of the stages of signal id
RECURSIVE SumLots(_, _)
SumLots(stages, id) ==
  IF stages = <<>> THEN 0
  ELSE (IF Head(stages).signalId = id THEN Head(stages).lots ELSE 0) + SumLots(Tail(stages), id)

\* the partial stages of signal id that closed some lots
PartialStages(st, id) ==
  {i \in 1..Len(st.stages) :
     /\ st.stages[i].signalId = id
     /\ ~st.stages[i].final
     /\ st.stages[i].lots > 0}

\* one buy signal with a trigger time, one active level, no partial close, no
\* trailing, no breakeven
SingleTakeProfit ==
  /\ Len(signals) = 1
  /\ signals[1].direction = "buy"
  /\ HasTimestamp(signals[1])
  /\ strategy.activeTPs = <<1>>
  /\ ~strategy.closePartials
  /\ ~strategy.trailingSL
  /\ ~strategy.moveSLToEntry
  /\ strategy.closeAllOnTP = 0

Ended == run.pc \in {"done", "error"}

\* the run returned a result of exactly one trade, closed for reason, and the
\* final balance is the initial balance plus its profit
OneTrade(reason) ==
  /\ run.pc = "done"
  /\ Len(run.result[1].trades) = 1
  /\ run.result[1].trades[1].exitReason = reason
  /\ run.result[1].finalBalance = run.result[1].initialBalance + run.result[1].trades[1].profit

C3_Conservation ==
  \A i \in 1..Len(run.stages) :
    run.stages[i].final =>
      SumLots(run.stages, run.stages[i].signalId) = run.stages[i].initialLotSize

\* C3 witness: a position was fully closed after a partial close, each of
\* some lots
C3_Witness ==
  \E i \in 1..Len(run.stages) :
    /\ run.stages[i].final
    /\ run.stages[i].lots > 0
    /\ PartialStages(run, run.stages[i].signalId) # {}

\* C4. One trade record per signal: no signal id is in two trade records and
\* a signal has a record exactly when it reached its final close; a step that
\* closes part of a position appends no record; a step that appends a record
\* appends one, at the final close of the position visited, with lotSize the
\* position's initialLotSize.
C4_OneRecordPerSignal ==
  /\ [](/\ \A i, j \in 1..Len(run.trades) :
             run.trades[i].signalId = run.trades[j].signalId => i = j
        /\ Len(run.trades) = Cardinality({i \in 1..Len(run.stages) : run.stages[i].final})
        /\ \A i \in 1..Len(run.trades) :
             \E j \in 1..Len(run.stages) :
               /\ run.stages[j].final
               /\ run.stages[j].signalId = run.trades[i].signalId)
  /\ [][/\ (/\ Len(run'.stages) > Len(run.stages)
            /\ ~run'.stages[Len(run'.stages)].final) => run'.trades = run.trades
        /\ Len(run'.trades) > Len(run.trades) =>
             /\ Len(run'.trades) = Len(run.trades) + 1
             /\ SubSeq(run'.trades, 1, Len(run.trades)) = run.trades
             /\ LastTrade(run').signalId = Head(run.queue)
             /\ LastTrade(run').lotSize = NextTrade.initialLotSize
             /\ run'.stages[Len(run'.stages)].final
             /\ Includes(run'.tradesToClose, Head(run.queue))]_vars

\* C4 witness: with partial close and several active levels, the last record
\* is that of a signal closed at its second or third level after a partial
\* close, and it is the only record of that signal
C4_Witness ==
  /\ strategy.closePartials
  /\ Len(strategy.activeTPs) > 1
  /\ run.trades # <<>>
  /\ LastTrade(run).exitReason \in {"tp2", "tp3"}
  /\ PartialStages(run, LastTrade(run).signalId) # {}
  /\ Cardinality({i \in 1..Len(run.trades) :
                    run.trades[i].signalId = LastTrade(run).signalId}) = 1

\* C5. Open positions at the end of the tick stream: when the run returns,
\* every position still in the open set is in the result's trade list as a
\* trade with exitReason open, pips 0 and profit 0.
C5_OpenPositionsEmitted ==
  run.pc = "done" =>
    \A i \in 1..Len(run.openTrades) :
      \E j \in 1..Len(run.result[1].trades) :
        /\ run.result[1].trades[j].signalId = run.openTrades[i].signalId
        /\ run.result[1].trades[j].exitReason = "open"
        /\ run.result[1].trades[j].pips = 0
        /\ run.result[1].trades[j].profit = 0

\* a timestamp with a numeric date component
Parseable(s) ==
  /\ HasTimestamp(s)
  /\ \E i \in 1..Len(s.timestamp.date) :
       /\ s.timestamp.date[i] # <<>>
       /\ IsDigit(Head(s.timestamp.date[i]))

\* C6. Configuration errors before any tick: when the signal list is empty or
\* no signal carries a parseable trigger timestamp, the run, once started, has
\* ended in an error with no tick pulled and no result.
C6_ConfigurationErrors ==
  (/\ run.pc # "start"
   /\ \A i \in 1..Len(signals) : ~Parseable(signals[i]))
    => (run.pc = "error" /\ run.tickCount = 0 /\ run.result = null)

Timeless(result) == [result EXCEPT !.startTime = 0, !.endTime = 0]

\* C7. Determinism: two runs on the same tick stream, signals, strategy and
\* risk configuration return results equal in every field but startTime and
\* endTime.
C7_Determinism ==
  (run.pc = "done" /\ run2.pc = "done")
    => Timeless(run.result[1]) = Timeless(run2.result[1])

\* C9. Lot-size floor: calculateLotSize returns a value >= 0.01 for every
\* risk mode, every schema-valid configuration, every balance >= 0 and every
\* stop-loss distance. Infinity is >= 0.01; NaN is not.
C9_LotSizeFloor ==
  calc.op = "calculateLotSize" =>
    CASE calc.out.kind = "num" -> calc.out.val >= MinLotCentis * LotUnit
      [] calc.out.kind = "Infinity" -> TRUE
      [] OTHER -> FALSE

oppositeDirection(direction) == IF direction = "buy" THEN "sell" ELSE "buy"

\* C10 as stated: pips(entry, exit, direction, symbol) is the negation of
\* pips(exit, entry, oppositeDirection(direction), symbol).
C10_PipSymmetry ==
  calc.op = "calculatePips" =>
    calc.out = -calculatePips(calc.exitPrice, calc.entryPrice,
                              oppositeDirection(calc.direction), calc.symbol)

\* C10 amended: swapping entry with exit and reversing the direction leaves
\* the pips as they are; swapping entry with exit alone, or reversing the
\* direction alone, negates them.
C10_PipSymmetrySameSign ==
  calc.op = "calculatePips" =>
    /\ calc.out = calculatePips(calc.exitPrice, calc.entryPrice,
                                oppositeDirection(calc.direction), calc.symbol)
    /\ calc.out = -calculatePips(calc.exitPrice, calc.entryPrice, calc.direction, calc.symbol)
    /\ calc.out = -calculatePips(calc.entryPrice, calc.exitPrice,
                                 oppositeDirection(calc.direction), calc.symbol)

\* C10 witness: a sell closed below its entry counts pips > 0
C10_Witness ==
  /\ calc.op = "calculatePips"
  /\ calc.direction = "sell"
  /\ calc.exitPrice < calc.entryPrice
  /\ calc.out > 0

\* whether the text is a decimal number and nothing but one
IsNumeric(str) ==
  LET body == IF str # <<>> /\ Head(str) \in {"+", "-"} THEN Tail(str) ELSE str
      whole == DigitRun(body)
      rest == SubSeq(body, Len(whole) + 1, Len(body))
      fraction == IF rest # <<>> /\ Head(rest) = "." THEN DigitRun(Tail(rest)) ELSE <<>>
  IN  /\ whole # <<>> \/ fraction # <<>>
      /\ rest = <<>> \/ (Head(rest) = "." /\ Len(rest) = 1 + Len(fraction))

\* the line gives a tick: it is not blank and its bid and ask columns are numbers
GivesTick(line, tickFormat) ==
  LET cols == split(line, {tickFormat.delimiter})
  IN  /\ trim(line) # <<>>
      /\ IsNumeric(Column(cols, tickFormat.bidColumn))
      /\ IsNumeric(Column(cols, tickFormat.askColumn))

TickOf(line, tickFormat) ==
  LET cols == split(line, {tickFormat.delimiter})
  IN  [timestamp |-> parseTimestamp(Column(cols, tickFormat.dateColumn),
                                    Column(cols, tickFormat.timeColumn),
                                    tickFormat.dateFormat, tickFormat.timeFormat),
       bid |-> parseFloat(Column(cols, tickFormat.bidColumn)).val,
       ask |-> parseFloat(Column(cols, tickFormat.askColumn)).val]

\* the ticks of the lines from line number n on, in their order
RECURSIVE TicksOfLines(_, _, _)
TicksOfLines(lines, n, tickFormat) ==
  IF n > Len(lines) THEN <<>>
  ELSE (IF (n = 1 /\ tickFormat.hasHeader) \/ ~GivesTick(lines[n], tickFormat)
        THEN <<>>
        ELSE <<TickOf(lines[n], tickFormat)>>)
       \o TicksOfLines(lines, n + 1, tickFormat)

NoTradeDiagnostics ==
  {"No tick data was processed", "Signal timestamps are AFTER your tick data ends",
   "Signal timestamps are BEFORE your tick data starts"}

\* C11. Tick source filtering: the ticks delivered to the engine are the lines
\* read, in their order, less the first line when hasHeader is set, less the
\* blank lines, and less the lines whose bid or ask column is missing or is not
\* a number; no line raises an error (a run fails only after the loop, with
\* one of the diagnostics of a run without trades), and the tick count is the
\* number of ticks delivered.
C11_TickFiltering ==
  source.kind = "file" =>
    /\ source.delivered = TicksOfLines(source.lines, 1, source.tickFormat)
    /\ run.tickCount = Len(source.delivered)
    /\ run.pc = "error" => run.trades = <<>> /\ run.error \in NoTradeDiagnostics

\* C12. Cooperative cancellation: once cancellation has been requested no
\* further tick is processed, and the run does not end as a completed run: it
\* neither returns a result nor fails with one of its own errors.
C12_Cancellation ==
  /\ [][cancelRequested => run'.tickCount = run.tickCount]_vars
  /\ [](cancelRequested => run.pc \notin {"done", "error"})

ClosedTrades(result) == SelectSeq(result.trades, LAMBDA t : t.exitReason # "open")

WonTrades(result) == SelectSeq(ClosedTrades(result), LAMBDA t : t.profit > 0)

LostTrades(result) == SelectSeq(ClosedTrades(result), LAMBDA t : t.profit < 0)

GrossWin(result) == SeqSum([i \in 1..Len(WonTrades(result)) |-> WonTrades(result)[i].profit])

GrossLoss(result) == SeqSum([i \in 1..Len(LostTrades(result)) |-> -LostTrades(result)[i].profit])

Zero == [num |-> 0, den |-> 1]

Aggregated(result) ==
  /\ result.winningTrades = Len(WonTrades(result))
  /\ result.winRate = IF Len(ClosedTrades(result)) > 0
                      THEN [num |-> result.winningTrades * 100,
                            den |-> Len(ClosedTrades(result))]
                      ELSE Zero
  /\ result.profitFactor = IF GrossLoss(result) > 0
                           THEN [num |-> GrossWin(result), den |-> GrossLoss(result)]
                           ELSE IF GrossWin(result) > 0 THEN [num |-> 999, den |-> 1]
                           ELSE Zero
  /\ WonTrades(result) = <<>> => result.averageWin = Zero /\ result.largestWin = 0
  /\ LostTrades(result) = <<>> => result.averageLoss = Zero /\ result.largestLoss = 0

\* C14. Aggregation: in every result, winRate is winningTrades over the number
\* of closed trades times 100, and 0 when no trade was closed; profitFactor is
\* the gross win over the gross loss when the gross loss is positive, 999 when
\* it is 0 and the gross win is positive, and 0 when both are 0; averageWin and
\* largestWin are 0 when no trade was won, averageLoss and largestLoss are 0
\* when none was lost.
C14_Aggregation == run.pc = "done" => Aggregated(run.result[1])

\* C14 witness: a result with one trade won and one lost
C14_Witness ==
  /\ run.pc = "done"
  /\ Len(WonTrades(run.result[1])) = 1
  /\ Len(LostTrades(run.result[1])) = 1

\* the signal has a timestamp none of whose date components is a number
Unusable(s) ==
  /\ HasTimestamp(s)
  /\ \A i \in 1..Len(s.timestamp.date) :
       s.timestamp.date[i] = <<>> \/ ~IsDigit(Head(s.timestamp.date[i]))

\* C15. Inconsistent signals are excluded: a signal whose timestamp is present
\* but has no numeric date component is never in the open set and never in
\* the trade list.
C15_InconsistentExcluded ==
  \A i \in 1..Len(signals) :
    Unusable(signals[i]) =>
      /\ IndexOfTrade(run.openTrades, signals[i].id) = 0
      /\ \A j \in 1..Len(run.trades) : run.trades[j].signalId # signals[i].id

\* every signal of the run has been opened and no trade is open
AllDone(st) == st.signalIndex >= Len(st.sortedSignals) /\ st.openTrades = <<>>

\* C16. Early termination: once every timestamped signal has been opened and
\* the open set is empty at the end of a tick's iteration, no further tick is
\* pulled from the tick source.
C16_EarlyTermination ==
  [][run.pc = "pull" /\ run.tickCount > 0 /\ AllDone(run) => run'.tickCount = run.tickCount]_vars

LastPoint(st) == st.equityCurve[Len(st.equityCurve)]

\* C17. The equity curve tracks every change of the balance: from the start of
\* the tick loop on the curve begins with the point of the initial balance,
\* gains one point with each change of the balance, partial closes included,
\* and its last point carries the current balance, which at the end is
\* finalBalance.
C17_EquityCurveTracksBalance ==
  /\ [](run.pc \in {"pull", "eval", "done"} =>
          /\ Len(run.equityCurve) >= 1
          /\ run.equityCurve[1].balance = riskConfig.initialBalance
          /\ run.equityCurve[1].equity = riskConfig.initialBalance
          /\ LastPoint(run).balance = run.balance
          /\ run.pc = "done" => LastPoint(run).balance = run.result[1].finalBalance)
  /\ [][run.pc \in {"pull", "eval"} /\ run'.balance # run.balance
          => Len(run'.equityCurve) = Len(run.equityCurve) + 1]_vars

SetMax(S) == CHOOSE x \in S : \A y \in S : y <= x

\* the largest decline of a sequence of balances from the highest balance
\* before it
PeakToTrough(balances) ==
  SetMax({SetMax({balances[j] : j \in 1..i}) - balances[i] : i \in 1..Len(balances)})

\* the balances of the equity curve: the initial balance and the balance after
\* every close
CurveBalances(result) == [i \in 1..Len(result.equityCurve) |-> result.equityCurve[i].balance]

CurveEquities(result) == [i \in 1..Len(result.equityCurve) |-> result.equityCurve[i].equity]

\* an amount of money as a quotient in dollars, in lowest terms
InDollars(amount) == [num |-> amount \div Gcd(amount, Dollar), den |-> Dollar \div Gcd(amount, Dollar)]

\* C18. The reported absolute drawdown is peak to trough: in the result of the
\* core, maxDrawdownBalance and maxDrawdownEquity are the largest decline, in
\* account currency, of the balance (of the equity) from its highest value so
\* far, over the initial balance and the balance after every close.
C18_AbsoluteDrawdown ==
  run.pc = "done" =>
    /\ run.result[1].maxDrawdownBalance = InDollars(PeakToTrough(CurveBalances(run.result[1])))
    /\ run.result[1].maxDrawdownEquity = InDollars(PeakToTrough(CurveEquities(run.result[1])))

\* the record of the trade that the step closes
Closes(reasons) ==
  /\ Len(run'.trades) = Len(run.trades) + 1
  /\ run'.trades[Len(run'.trades)].exitReason \in reasons

ClosedRecord == run'.trades[Len(run'.trades)]

\* C19. Stop-loss exit price: a trade closed by the stop-loss check is
\* recorded with exitPrice equal to its stop as adjusted on that tick, and its
\* pips and profit are those of an exit at the stop.
C19_StopExitPrice ==
  [][Visiting /\ Closes({"sl", "trailing_sl"}) =>
       /\ ClosedRecord.exitPrice = NextTrade.currentSL
       /\ ClosedRecord.profit =
            NextTrade.realizedProfit
              + calculateProfit(calculatePips(NextTrade.entryPrice, NextTrade.currentSL,
                                              NextTrade.signal.direction,
                                              NextTrade.signal.symbol),
                                NextTrade.remainingLots)]_vars

\* C20. Take-profit exit price: a trade closed by a take-profit hit is
\* recorded with exitPrice equal to the price of the level that was hit, and
\* every stage a take-profit hit closes, full or partial, changes the balance
\* by the profit of an exit at that price.
C20_TakeProfitExitPrice ==
  [][Visiting /\ ~StopLossHit(NextTrade, run.tick) /\ FirstTpHit(NextTrade, run.tick, strategy) # 0 =>
       LET tpLevel == FirstTpHit(NextTrade, run.tick, strategy)
           tp == NextTrade.signal.takeProfits[tpLevel]
           lots == run'.stages[Len(run'.stages)].lots
       IN  /\ Closes({TpReason(tpLevel)}) => ClosedRecord.exitPrice = tp
           /\ Len(run'.stages) = Len(run.stages) + 1 =>
                run'.balance - run.balance =
                  calculateProfit(calculatePips(NextTrade.entryPrice, tp,
                                                NextTrade.signal.direction,
                                                NextTrade.signal.symbol), lots)]_vars

\* the partial stages the run has recorded
PartialStagesOf(st) == {i \in 1..Len(st.stages) : ~st.stages[i].final}

\* C21. Partial-close size: every partial close closes partialClosePercent
\* percent of the position's initial lot size, so two partial closes of the
\* same position close the same number of lots.
C21_PartialCloseSize ==
  /\ \A i \in PartialStagesOf(run) :
       run.stages[i].lots * 100
         = run.stages[i].initialLotSize
             * OrElse(strategy.partialClosePercent, DefaultPartialPercent)
  /\ \A i, j \in PartialStagesOf(run) :
       run.stages[i].signalId = run.stages[j].signalId
         => run.stages[i].lots = run.stages[j].lots

\* the stages of signal id, in the order they were closed
StagesOf(st, id) == SelectSeq(st.stages, LAMBDA g : g.signalId = id)

\* the pips of a stage of the position a trade record reports
StagePips(record, stage) ==
  calculatePips(record.entryPrice, stage.exitPrice, record.direction, record.symbol)

\* the sum over the stages of pips * (lots closed / initialLotSize)
RECURSIVE SumWeightedPips(_, _)
SumWeightedPips(record, stages) ==
  IF stages = <<>> THEN 0
  ELSE (StagePips(record, Head(stages)) * Head(stages).lots * WeightScale)
         \div Head(stages).initialLotSize
       + SumWeightedPips(record, Tail(stages))

\* the sum over the stages of the stage's realized profit
RECURSIVE SumStageProfit(_, _)
SumStageProfit(record, stages) ==
  IF stages = <<>> THEN 0
  ELSE calculateProfit(StagePips(record, Head(stages)), Head(stages).lots)
       + SumStageProfit(record, Tail(stages))

\* C22. Multi-stage accounting: the pips of a trade record are the sum over
\* the stages of its position, partial and final, of the stage's pips weighted
\* by the share of the initial lots the stage closed, and its profit is the
\* sum of the stages' profits, whether the final stage is a stop-loss or a
\* take-profit close.
C22_MultiStageAccounting ==
  \A i \in 1..Len(run.trades) :
    LET record == run.trades[i]
        stages == StagesOf(run, record.signalId)
    IN  /\ record.pips = SumWeightedPips(record, stages)
        /\ record.profit = SumStageProfit(record, stages)

\* C22 witness: a position is closed by its stop at a loss after two partial
\* closes that closed some lots, the second at a profit
C22_Witness ==
  \E i \in 1..Len(run.trades) :
    LET record == run.trades[i]
        stages == StagesOf(run, record.signalId)
    IN  /\ record.exitReason = "sl"
        /\ Len(stages) = 3
        /\ \A j \in 1..2 : stages[j].lots > 0
        /\ StagePips(record, stages[2]) > 0
        /\ stages[3].lots > 0
        /\ StagePips(record, stages[3]) < 0

\* C22 witness for a final take-profit stage
C22_WitnessTakeProfit ==
  \E i \in 1..Len(run.trades) :
    LET record == run.trades[i]
        stages == StagesOf(run, record.signalId)
    IN  /\ record.exitReason = "tp3"
        /\ Len(stages) = 3
        /\ \A j \in 1..3 : stages[j].lots > 0
        /\ \A j \in 2..3 : StagePips(record, stages[j]) > 0

\* the open positions that the step leaves open: in the open set before and
\* after it, and not listed for deletion
StaysOpen(id) ==
  /\ IndexOfTrade(run.openTrades, id) # 0
  /\ IndexOfTrade(run'.openTrades, id) # 0
  /\ ~Includes(run'.tradesToClose, id)

\* the open positions of a run that are not listed for deletion
LivePositions(st) ==
  {i \in 1..Len(st.openTrades) : ~Includes(st.tradesToClose, st.openTrades[i].signalId)}

C23_WitnessCore ==
  /\ IsCore(run)
  /\ run.pc = "pull"
  /\ \E i \in LivePositions(run) :
       run.openTrades[i].currentSL # run.openTrades[i].signal.stopLoss

BestPips(trade) ==
  IF trade.signal.direction = "buy"
  THEN calculatePips(trade.entryPrice, trade.highestPrice, "buy", trade.signal.symbol)
  ELSE calculatePips(trade.entryPrice, trade.lowestPrice, "sell", trade.signal.symbol)

\* the stop is at least as favorable as the entry price
AtBreakeven(trade) ==
  IF trade.signal.direction = "buy" THEN trade.currentSL >= trade.entryPrice
  ELSE trade.currentSL <= trade.entryPrice

\* C24. Breakeven after N pips in profit: with moveSLToEntry enabled and
\* moveSLAfterPips = N, the stop the stop-loss check uses is at least as
\* favorable as the entry price on the first tick on which the position is N
\* or more pips in profit and on every later tick.
C24_BreakevenAfterPips ==
  Visiting /\ strategy.moveSLToEntry /\ strategy.moveSLAfterPips # 0
           /\ BestPips(NextTrade) >= strategy.moveSLAfterPips
    => AtBreakeven(NextTrade)

\* the open trade the loop visits next, as the open set holds it
VisitedTrade == OpenTradeOf(run, Head(run.queue))

\* the open trade the loop visits next as the stop-loss check of the engine
\* that runs will find it, and as the trailing stop alone leaves it
CheckedTrade ==
  IF IsCore(run) THEN CoreAdjustTrade(VisitedTrade, run.tick, strategy) ELSE NextTrade

TrailedTrade ==
  IF IsCore(run) THEN CoreAdjustTrade(VisitedTrade, run.tick, strategy)
  ELSE TrailStop(UpdateExtremes(VisitedTrade, run.tick), strategy)

\* the position has moveSLAfterTP or more levels marked hit from earlier ticks
BreakevenDue ==
  /\ Visiting
  /\ strategy.moveSLToEntry
  /\ strategy.moveSLAfterTP # 0
  /\ Len(VisitedTrade.tpHits) >= strategy.moveSLAfterTP

\* C25. Breakeven after N take-profit levels: with moveSLToEntry enabled and
\* moveSLAfterTP = N, on every tick processed after a position has N or more
\* levels marked hit the stop used by the stop-loss check is at least as
\* favorable as the entry price, and a stop that trailing has already made at
\* least as favorable as the entry price is left where trailing put it.
C25_BreakevenAfterLevels ==
  BreakevenDue =>
    /\ AtBreakeven(CheckedTrade)
    /\ AtBreakeven(TrailedTrade) => CheckedTrade.currentSL = TrailedTrade.currentSL

\* C25 witness: the breakeven move raises the stop of a buy position from
\* its signal's stop-loss to its entry price
C25_Witness ==
  /\ BreakevenDue
  /\ VisitedTrade.signal.direction = "buy"
  /\ VisitedTrade.currentSL < VisitedTrade.entryPrice
  /\ CheckedTrade.currentSL = VisitedTrade.entryPrice

\* C25 witness of a stop that trailing has moved past the entry price
C25_WitnessTrailing ==
  /\ BreakevenDue
  /\ VisitedTrade.signal.direction = "buy"
  /\ TrailedTrade.currentSL > VisitedTrade.entryPrice
  /\ TrailedTrade.currentSL > VisitedTrade.currentSL

\* whether the stop-loss check of the engine that runs closes the visited trade
CheckedStopHit ==
  IF IsCore(run) THEN CoreStopLossHit(CheckedTrade, run.tick)
  ELSE StopLossHit(CheckedTrade, run.tick)

\* the level (from 1) at which the take-profit loop of the engine that runs
\* stops for the visited trade, 0 when no active, not yet hit level is reached
CheckedLevel ==
  IF IsCore(run)
  THEN LET hits == CoreHitIndexes(CheckedTrade, run.tick, strategy)
       IN  IF hits = {} THEN 0 ELSE 1 + CHOOSE i \in hits : \A j \in hits : i <= j
  ELSE FirstTpHit(CheckedTrade, run.tick, strategy)

\* two or more active levels, take-profit levels in use, no partial close and
\* no close-all threshold
PlainMultipleTPs ==
  /\ Len(strategy.activeTPs) >= 2
  /\ strategy.useMultipleTPs
  /\ ~strategy.closePartials
  /\ strategy.closeAllOnTP = 0

\* the active levels left once the level now hit is marked
ActiveLeft == Len(strategy.activeTPs) - (Len(VisitedTrade.tpHits) + 1)

\* C26. Intermediate take-profit hits without partial close: with two or
\* more active levels, partial close disabled and no close-all threshold, the
\* hit of a level other than the last remaining active one marks the level and
\* leaves balance, equity, remaining lots, the trade list and the equity curve
\* unchanged and the position open; the hit of the last remaining active level
\* closes the position.
C26_IntermediateHits ==
  [][Visiting /\ PlainMultipleTPs /\ ~CheckedStopHit /\ CheckedLevel # 0 =>
       LET id == Head(run.queue)
           after == OpenTradeOf(run', id)
       IN  /\ Len(after.tpHits) = Len(VisitedTrade.tpHits) + 1
           /\ IF ActiveLeft > 0
              THEN /\ run'.balance = run.balance
                   /\ run'.equity = run.equity
                   /\ run'.trades = run.trades
                   /\ run'.equityCurve = run.equityCurve
                   /\ after.remainingLots = VisitedTrade.remainingLots
                   /\ ~Includes(run'.tradesToClose, id)
              ELSE /\ Includes(run'.tradesToClose, id)
                   /\ Len(run'.trades) = Len(run.trades) + 1
                   /\ LastTrade(run').signalId = id
                   /\ LastTrade(run').exitReason = TpReason(CheckedLevel)]_vars

\* C27. Close-all threshold: with closeAllOnTP = X, the hit of an active
\* level L >= X closes the position for all of its remaining lots with exit
\* reason tpL and the position leaves the open set at the end of that tick,
\* whatever other levels are not yet hit and whether or not partial close is
\* enabled; the hit of a level L < X that is not the last remaining active
\* level does not close the position.
C27_CloseAllThreshold ==
  /\ [][Visiting /\ strategy.closeAllOnTP # 0 /\ ~StopLossHit(NextTrade, run.tick)
                 /\ FirstTpHit(NextTrade, run.tick, strategy) # 0 =>
          LET id == Head(run.queue)
              tpLevel == FirstTpHit(NextTrade, run.tick, strategy)
              pips == calculatePips(NextTrade.entryPrice, TpExitPrice(NextTrade, run.tick),
                                    NextTrade.signal.direction, NextTrade.signal.symbol)
          IN  IF tpLevel >= strategy.closeAllOnTP
              THEN /\ Includes(run'.tradesToClose, id)
                   /\ Len(run'.trades) = Len(run.trades) + 1
                   /\ LastTrade(run').signalId = id
                   /\ LastTrade(run').exitReason = TpReason(tpLevel)
                   /\ run'.balance - run.balance = calculateProfit(pips, NextTrade.remainingLots)
                   /\ run'.stages[Len(run'.stages)].final
                   /\ run'.stages[Len(run'.stages)].lots = NextTrade.remainingLots
              ELSE ActiveLeft > 0 =>
                     /\ ~Includes(run'.tradesToClose, id)
                     /\ run'.trades = run.trades]_vars
  /\ [][run.pc = "eval" /\ run.queue = <<>> =>
          \A i \in 1..Len(run.tradesToClose) :
            IndexOfTrade(run'.openTrades, run.tradesToClose[i]) = 0]_vars

\* C27 witness: with partial close enabled and three active levels, a
\* position that was partly closed at level 1 has just been closed for the
\* rest of its lots by the hit of level 2, the threshold
C27_Witness ==
  /\ strategy.closeAllOnTP = 2
  /\ strategy.closePartials
  /\ Len(strategy.activeTPs) = 3
  /\ run.pc = "eval"
  /\ run.trades # <<>>
  /\ LastTrade(run).exitReason = "tp2"
  /\ Includes(run.tradesToClose, LastTrade(run).signalId)
  /\ OpenTradeOf(run, LastTrade(run).signalId).tpHits = <<1, 2>>
  /\ LET stages == StagesOf(run, LastTrade(run).signalId)
     IN  /\ Len(stages) = 2
         /\ stages[1].lots > 0
         /\ stages[2].lots > 0

\* the ids of the signals a run has opened: those of its open positions and
\* of its trade records
Opened(st) ==
  {st.openTrades[i].signalId : i \in 1..Len(st.openTrades)}
    \cup {st.trades[i].signalId : i \in 1..Len(st.trades)}

\* the place in the input of the signal with this id
InputIndex(id) == CHOOSE i \in 1..Len(signals) : signals[i].id = id

TriggerTime(i) == parseSignalTimestamp(signals[i].timestamp)

\* the signals of the input, by place, that a tick finds due: timestamped,
\* not yet opened, trigger time not after the tick's
DueSignals(st, tick) ==
  {i \in 1..Len(signals) :
     /\ HasTimestamp(signals[i])
     /\ signals[i].id \notin Opened(st)
     /\ TriggerTime(i) <= tick.timestamp}

\* C28. Signal opening order and timing: a tick opens exactly the
\* timestamped signals not yet opened whose trigger time is not after the
\* tick's time, so each is opened once, on the first tick at or after its
\* trigger time and on no earlier tick; the signals a tick opens enter the
\* open set in ascending order of trigger time, those of equal trigger time
\* in the order of the input; no other step opens a signal.
C28_OpeningOrder ==
  /\ [][run.pc = "pull" /\ run'.pc = "eval" =>
          LET tick == run'.tick
              due == DueSignals(run, tick)
              kept == Len(run.openTrades)
              new == SubSeq(run'.openTrades, kept + 1, Len(run'.openTrades))
              place(j) == InputIndex(new[j].signalId)
          IN  /\ SubSeq(run'.openTrades, 1, kept) = run.openTrades
              /\ Len(new) = Cardinality(due)
              /\ \A j \in 1..Len(new) :
                   /\ place(j) \in due
                   /\ new[j].entryTime = tick.timestamp
              /\ \A j, k \in 1..Len(new) :
                   j < k =>
                     \/ TriggerTime(place(j)) < TriggerTime(place(k))
                     \/ /\ TriggerTime(place(j)) = TriggerTime(place(k))
                        /\ place(j) < place(k)]_vars
  /\ [][run.pc # "pull" => Opened(run') = Opened(run)]_vars

\* C28 witness: one tick has opened three signals given in another order
\* than that of their trigger times, two of them of equal trigger time
C28_Witness ==
  /\ run.pc = "eval"
  /\ Len(run.openTrades) = 3
  /\ run.trades = <<>>
  /\ run.tickCount = 1
  /\ Len(run.queue) = 3
  /\ InputIndex(run.openTrades[1].signalId) = 2
  /\ InputIndex(run.openTrades[2].signalId) = 3
  /\ InputIndex(run.openTrades[3].signalId) = 1

\* the positions the step opens: the entries of the open set it adds
OpenedBy(before, after) ==
  {i \in 1..Len(after.openTrades) :
     IndexOfTrade(before.openTrades, after.openTrades[i].signalId) = 0}

\* C29. Entry state: in either engine a position is opened with entryPrice
\* the opening tick's ask for a buy and bid for a sell, whatever the signal's
\* own entryPrice, with its stop at the signal's stop-loss, remainingLots
\* equal to initialLotSize, no level hit and zero realized profit and weighted
\* pips.
C29_EntryState ==
  [][run.pc = "pull" /\ run'.pc = "eval" =>
       \A i \in OpenedBy(run, run') :
         LET trade == run'.openTrades[i]
             signal == trade.signal
         IN  /\ signal.direction = "buy" => trade.entryPrice = run'.tick.ask
             /\ signal.direction = "sell" => trade.entryPrice = run'.tick.bid
             /\ trade.currentSL = signal.stopLoss
             /\ trade.remainingLots = trade.initialLotSize
             /\ trade.tpHits = <<>>
             /\ trade.realizedProfit = 0
             /\ trade.weightedPips = 0]_vars

\* C29 witness: a tick has just opened a buy position at its ask, above its
\* bid and not the signal's entry price
C29_Witness ==
  /\ run.pc = "eval"
  /\ \E i \in 1..Len(run.openTrades) :
       LET trade == run.openTrades[i]
       IN  /\ trade.entryTime = run.tick.timestamp
           /\ Len(run.queue) = Len(run.openTrades)
           /\ run.tickCount = 1
           /\ trade.signal.direction = "buy"
           /\ trade.entryPrice = run.tick.ask
           /\ run.tick.ask > run.tick.bid
           /\ trade.entryPrice # trade.signal.entryPrice
           /\ trade.initialLotSize > 0

\* C29 witness in the core
C29_WitnessCore == IsCore(run) /\ C29_Witness

\* the entry price, direction and symbol of the position of signal id, open
\* or closed
PositionOf(st, id) ==
  IF IndexOfTrade(st.openTrades, id) # 0
  THEN LET trade == OpenTradeOf(st, id)
       IN  [entryPrice |-> trade.entryPrice, direction |-> trade.signal.direction,
            symbol |-> trade.signal.symbol]
  ELSE LET record == st.trades[CHOOSE i \in 1..Len(st.trades) : st.trades[i].signalId = id]
       IN  [entryPrice |-> record.entryPrice, direction |-> record.direction,
            symbol |-> record.symbol]

\* the profit of the stages, partial and full, that a run has closed
RECURSIVE SumClosed(_, _)
SumClosed(st, stages) ==
  IF stages = <<>> THEN 0
  ELSE calculateProfit(StagePips(PositionOf(st, Head(stages).signalId), Head(stages)),
                       Head(stages).lots)
       + SumClosed(st, Tail(stages))

\* the balance that results from the closes made so far
BalanceFromCloses(st) == riskConfig.initialBalance + SumClosed(st, st.stages)

\* the lot size of an open trade recomputed from a balance, with the stop
\* distance taken from the trade's entry price
SizedFrom(trade, balance) ==
  calculateLotSize(riskConfig, balance,
                   Abs(calculatePips(trade.entryPrice, trade.signal.stopLoss,
                                     trade.signal.direction, trade.signal.symbol)),
                   trade.signal.symbol)

\* C30. Sizing uses the then-current balance: every position a tick opens
\* has the lot size calculateLotSize gives for the balance that results from
\* the full and partial closes of the ticks before it, none of its own, and
\* for the distance between the position's entry price and the signal's
\* stop-loss; all positions opened by one tick are sized from that one balance.
C30_SizingBalance ==
  [][run.pc = "pull" /\ run'.pc = "eval" =>
       /\ Len(run'.stages) = Len(run.stages)
       /\ \A i \in OpenedBy(run, run') :
            run'.openTrades[i].initialLotSize
              = SizedFrom(run'.openTrades[i], BalanceFromCloses(run)).val]_vars

\* C30 witness: a tick has just opened a position after an earlier tick
\* closed another at a loss, and its lot size is not the one the initial
\* balance would give
C30_Witness ==
  /\ run.pc = "eval"
  /\ Len(run.queue) = Len(run.openTrades)
  /\ run.stages # <<>>
  /\ \E i \in 1..Len(run.openTrades) :
       LET trade == run.openTrades[i]
       IN  /\ trade.remainingLots = trade.initialLotSize
           /\ trade.tpHits = <<>>
           /\ ~\E j \in 1..Len(run.stages) : run.stages[j].signalId = trade.signalId
           /\ trade.initialLotSize # SizedFrom(trade, riskConfig.initialBalance).val

\* ------------------------------------------- the timestamp parsers
\* the components a date or a time is made of: numbers on both sides of 12
\* and of 31, a year, and text that is no number
DateWords == {<<"t", "b", "a">>, D2(1), D2(5), D2(15), D2(24), D2(31), D2(32), D4(2024)}

MonthWords == {<<"t", "b", "a">>, D2(1), D2(5), D2(15), D2(24)}

TimeWords == {<<>>, <<D2(10), D2(30), D2(5)>>, <<D2(10), <<"x">>, D2(5)>>}

DateFormats == {"YYYY-MM-DD", "YYYY.MM.DD", "DD/MM/YYYY", "MM/DD/YYYY", "DD.MM.YYYY"}

TickDateWords == {<<"x", "x">>, D4(2024), D2(2), D2(15)}

\* a call of parseSignalTimestamp in the server engine and in the core on
\* the same timestamp (instants are kept below 2^31 seconds: the core reads
\* 32-mm-2024 as day 2024 of a month of 2032)
ParseSignalTime ==
  /\ calc = NoCalc
  /\ \E w0 \in DateWords, w1 \in MonthWords, w2 \in DateWords, time \in TimeWords :
       LET timestamp == [kind |-> "text", date |-> <<w0, w1, w2>>, time |-> time]
       IN  /\ ~(w0 = D2(32) /\ w2 = D4(2024))
           /\ calc' = [op |-> "parseSignalTimestamp", timestamp |-> timestamp,
                    out |-> parseSignalTimestamp(timestamp),
                    core |-> CoreParseSignalTimestamp(timestamp)]
  /\ UNCHANGED <<signals, strategy, riskConfig, firstTouch, run, run2, source, cancelRequested, ipc>>

\* a call of parseTimestamp on the date and time columns of a tick (instants
\* are kept below 2^31 seconds: no month of 2024)
ParseTickTime ==
  /\ calc = NoCalc
  /\ \E w0 \in TickDateWords, w1 \in TickDateWords, w2 \in TickDateWords,
        time \in TimeWords \ {<<>>}, dateFormat \in DateFormats :
       LET sep == IF dateFormat = "YYYY-MM-DD" THEN "-"
                  ELSE IF dateFormat \in {"YYYY.MM.DD", "DD.MM.YYYY"} THEN "." ELSE "/"
           dateStr == w0 \o <<sep>> \o w1 \o <<sep>> \o w2
           timeStr == time[1] \o <<":">> \o time[2] \o <<":">> \o time[3]
       IN  /\ <<w0, w1, w2>>[IF dateFormat = "MM/DD/YYYY" THEN 1 ELSE 2] # D4(2024)
           /\ calc' = [op |-> "parseTimestamp", date |-> <<w0, w1, w2>>, time |-> time,
                    dateFormat |-> dateFormat,
                    out |-> parseTimestamp(dateStr, timeStr, dateFormat, "HH:mm:ss")]
  /\ UNCHANGED <<signals, strategy, riskConfig, firstTouch, run, run2, source, cancelRequested, ipc>>

NextParse == ParseSignalTime \/ ParseTickTime

SpecParse == InitCalc /\ [][NextParse]_vars

\* whether a component reads as a number, and the number it reads as
IsNumber(part) == part # <<>> /\ IsDigit(Head(part))

NumberOr(parts, i, fallback) ==
  IF i <= Len(parts) /\ IsNumber(parts[i]) THEN LeadingDigits(parts[i], 0) ELSE fallback

\* the order of year, month and day the three numbers of a date are read in
DateOrder(p0, p1, p2) ==
  IF p0 > 31 THEN <<p0, p1, p2>>
  ELSE IF p2 > 31 THEN
    IF p0 > 12 THEN <<p2, p1, p0>>
    ELSE IF p1 > 12 THEN <<p2, p0, p1>>
    ELSE <<p2, p1, p0>>
  ELSE <<IF p0 < 100 THEN 2000 + p0 ELSE p0, p1, p2>>

\* the instant of a signal timestamp whose date is read in that order
DateOrderInstant(timestamp) ==
  LET ymd == DateOrder(NumberOr(timestamp.date, 1, 0), NumberOr(timestamp.date, 2, 0),
                       NumberOr(timestamp.date, 3, 0))
  IN  NewDate(OrElse(ymd[1], FallbackYear), OrElse(ymd[2], 1) - 1, OrElse(ymd[3], 1),
              NumberOr(timestamp.time, 1, 0), NumberOr(timestamp.time, 2, 0),
              NumberOr(timestamp.time, 3, 0))

\* C31: the date of a signal timestamp is read year first when its first
\* number exceeds 31, else year last when its third number exceeds 31 (the
\* day being whichever of the first two exceeds 12, day first by default),
\* else as (2000 + first, second, third); parseSignalTimestamp of every
\* engine returns the instant of that reading.
C31_DateOrder ==
  calc.op = "parseSignalTimestamp" =>
    /\ calc.out = DateOrderInstant(calc.timestamp)
    /\ calc.core = DateOrderInstant(calc.timestamp)

\* the server engine alone follows the order
C31_DateOrderServer ==
  calc.op = "parseSignalTimestamp" => calc.out = DateOrderInstant(calc.timestamp)

C31_WitnessServer ==
  /\ calc.op = "parseSignalTimestamp"
  /\ calc.timestamp.date = <<D2(24), D2(1), D2(15)>>
  /\ calc.out = NewDate(2024, 0, 15, 0, 0, 0)

\* C32: a component of a date or of a time that is no number reads as its
\* fallback (year 2024, month 1, day 1, and 0 for the hour, the minute and the
\* second); a signal timestamp none of whose date components is a number is
\* 1 January 2024 at the time it names, and a tick's date and time are read by
\* the positions its format gives with those fallbacks.
C32_Fallbacks ==
  /\ calc.op = "parseSignalTimestamp"
       /\ (\A i \in 1..3 : ~IsNumber(calc.timestamp.date[i]))
     => calc.out = NewDate(FallbackYear, 0, 1, NumberOr(calc.timestamp.time, 1, 0),
                           NumberOr(calc.timestamp.time, 2, 0),
                           NumberOr(calc.timestamp.time, 3, 0))
  /\ calc.op = "parseTimestamp" /\ calc.dateFormat \in {"YYYY-MM-DD", "YYYY.MM.DD"}
     => calc.out = NewDate(NumberOr(calc.date, 1, FallbackYear),
                           NumberOr(calc.date, 2, 1) - 1, NumberOr(calc.date, 3, 1),
                           NumberOr(calc.time, 1, 0), NumberOr(calc.time, 2, 0),
                           NumberOr(calc.time, 3, 0))

\* the fallbacks of parseTimestamp alone
C32_TickFallbacks ==
  calc.op = "parseTimestamp" =>
    LET at == CASE calc.dateFormat \in {"YYYY-MM-DD", "YYYY.MM.DD"} -> <<1, 2, 3>>
                [] calc.dateFormat = "DD/MM/YYYY" -> <<3, 2, 1>>
                [] calc.dateFormat = "MM/DD/YYYY" -> <<3, 1, 2>>
                [] OTHER -> <<4, 4, 4>>
    IN  calc.out = NewDate(NumberOr(calc.date, at[1], FallbackYear),
                           NumberOr(calc.date, at[2], 1) - 1, NumberOr(calc.date, at[3], 1),
                           NumberOr(calc.time, 1, 0), NumberOr(calc.time, 2, 0),
                           NumberOr(calc.time, 3, 0))

\* C33. Balance conservation: in every result finalBalance minus
\* initialBalance is the sum of the profit fields of the result's trade
\* records, whatever the strategy, partial closes included, and also when the
\* ticks end while positions are open.
C33_BalanceConservation ==
  run.pc = "done" =>
    run.result[1].finalBalance - run.result[1].initialBalance
      = SeqSum(Profits(run.result[1].trades))

\* the conservation for the results of runs that leave no partly closed
\* position open
C33_ConservationOfClosed ==
  (/\ run.pc = "done"
   /\ \A i \in 1..Len(run.openTrades) : run.openTrades[i].realizedProfit = 0)
    => run.result[1].finalBalance - run.result[1].initialBalance
         = SeqSum(Profits(run.result[1].trades))

\* the ids of the open set and of the trade records of a run
OpenIds(st) == {st.openTrades[i].signalId : i \in 1..Len(st.openTrades)}

RecordIds(st) == {st.trades[i].signalId : i \in 1..Len(st.trades)}

\* the run is between two ticks or past the loop, with a tick processed
AfterTick(st) == st.pc \in {"pull", "done", "error"} /\ st.tickCount > 0

\* C34. Bookkeeping partition (the ids of the signals are distinct): after each
\* tick every timestamped signal is in exactly one of three classes, not yet
\* opened, in the open set, in the trade list; the count of opened signals is
\* the size of the open set plus the number of trade records; and a position
\* removed from the open set is never evaluated nor opened again.
C34_Partition ==
  /\ [](AfterTick(run) =>
          /\ \A j \in 1..Len(run.sortedSignals) :
               LET id == run.sortedSignals[j].id
                   waiting == j > run.signalIndex
                   open == id \in OpenIds(run)
                   recorded == id \in RecordIds(run)
               IN  /\ waiting \/ open \/ recorded
                   /\ ~(waiting /\ open) /\ ~(waiting /\ recorded) /\ ~(open /\ recorded)
          /\ run.signalIndex = Len(run.openTrades) + Len(run.trades)
          /\ Cardinality(RecordIds(run)) = Len(run.trades))
  /\ [][\A id \in RecordIds(run) \ OpenIds(run) :
          /\ id \notin OpenIds(run')
          /\ ~(run'.pc = "eval" /\ run'.queue # <<>> /\ Head(run'.queue) = id)
          /\ ~Includes(run'.queue, id)]_vars

\* C34 witness: after a tick one signal waits for its time, one is open and one
\* has its trade record
C34_Witness ==
  /\ AfterTick(run)
  /\ run.pc = "pull"
  /\ Len(run.sortedSignals) = 3
  /\ run.signalIndex = 2
  /\ Len(run.openTrades) = 1
  /\ Len(run.trades) = 1

\* the step is a partial close of the position id that closes lots of it
PartialCloseStep(id, lots) ==
  /\ run.pc = "eval"
  /\ run.queue # <<>>
  /\ Head(run.queue) = id
  /\ strategy.closePartials
  /\ Len(run'.stages) = Len(run.stages) + 1
  /\ LET stage == run'.stages[Len(run'.stages)]
     IN  /\ stage.signalId = id
         /\ ~stage.final
         /\ stage.lots = lots

ReachedLevels(trade, tick) ==
  {level \in 1..Len(trade.signal.takeProfits) :
     /\ Includes(strategy.activeTPs, level)
     /\ ~Includes(trade.tpHits, level)
     /\ IF trade.signal.direction = "buy"
        THEN tick.bid >= trade.signal.takeProfits[level]
        ELSE tick.ask <= trade.signal.takeProfits[level]}

NoDuplicates(seq) == \A i, j \in 1..Len(seq) : i # j => seq[i] # seq[j]

\* C36. Levels hit: tpHits of a position holds no level twice and only levels
\* that are active and that the signal has; a position is visited once per
\* tick, its tpHits changes only on that visit and then by one level appended,
\* the lowest-numbered active level not yet marked that the tick reaches.
C36_LevelsHit ==
  /\ [](/\ \A i \in 1..Len(run.openTrades) :
             LET trade == run.openTrades[i]
             IN  /\ NoDuplicates(trade.tpHits)
                 /\ \A k \in 1..Len(trade.tpHits) :
                      /\ Includes(strategy.activeTPs, trade.tpHits[k])
                      /\ trade.tpHits[k] \in 1..Len(trade.signal.takeProfits)
        /\ NoDuplicates(run.queue))
  /\ [][\A i \in 1..Len(run.openTrades) :
          LET before == run.openTrades[i]
              id == before.signalId
          IN  IndexOfTrade(run'.openTrades, id) # 0 =>
                LET after == OpenTradeOf(run', id)
                    reached == ReachedLevels(before, run.tick)
                IN  after.tpHits # before.tpHits =>
                      /\ Visiting
                      /\ Head(run.queue) = id
                      /\ reached # {}
                      /\ \E level \in reached :
                           /\ \A other \in reached : level <= other
                           /\ after.tpHits = Append(before.tpHits, level)]_vars

\* C36 witness: a tick reaches two levels of a position not yet marked, and
\* the lower one has been marked on it
C36_Witness ==
  /\ run.pc = "eval"
  /\ \E i \in 1..Len(run.openTrades) :
       LET trade == run.openTrades[i]
           unmarked == [trade EXCEPT !.tpHits = SubSeq(@, 1, Len(@) - 1)]
       IN  /\ ~Includes(run.queue, trade.signalId)
           /\ Len(trade.tpHits) = 2
           /\ trade.tpHits[2] = 2
           /\ {2, 3} \subseteq ReachedLevels(unmarked, run.tick)

\* C37. Same-tick evaluation: a position opened on a tick, with the tick's time
\* as entryTime, is among the positions the same iteration evaluates against
\* that tick; a trade record carries the entryTime of its position and the time
\* of the tick that closed it as exitTime; so a position closed on the tick
\* that opened it, as every position closed on the first tick of a run is, has
\* exitTime equal to entryTime.
C37_SameTickEvaluation ==
  /\ [][run.pc = "pull" /\ run'.pc = "eval" =>
          \A i \in OpenedBy(run, run') :
            /\ run'.openTrades[i].entryTime = run'.tick.timestamp
            /\ Includes(run'.queue, run'.openTrades[i].signalId)]_vars
  /\ [][Visiting /\ Len(run'.trades) = Len(run.trades) + 1 =>
          /\ ClosedRecord.signalId = Head(run.queue)
          /\ ClosedRecord.entryTime = VisitedTrade.entryTime
          /\ ClosedRecord.exitTime = run.tick.timestamp]_vars
  /\ [][run.pc = "eval" /\ run'.pc = "eval" => run'.tick = run.tick]_vars
  /\ [](run.tickCount = 1 =>
          \A j \in 1..Len(run.trades) : run.trades[j].exitTime = run.trades[j].entryTime)

\* C37 witness: a signal has been opened and closed on the first tick of the
\* run, and its record has the tick's time as entry and as exit time
C37_Witness ==
  /\ run.tickCount = 1
  /\ run.pc = "eval"
  /\ Len(run.trades) = 1
  /\ run.trades[1].exitTime = run.tick.timestamp
  /\ run.trades[1].entryTime = run.tick.timestamp

\* the trigger times of the timestamped signals of the input
SignalTimes == {TriggerTime(i) : i \in {j \in 1..Len(signals) : HasTimestamp(signals[j])}}

\* the run has ended past its configuration checks: it returned, or it threw
\* something else than one of the two configuration errors
EndedPastChecks(st) ==
  \/ st.pc = "done"
  \/ st.pc = "error" /\ st.error \notin {NoSignalsMessage, NoTimestampsMessage}

\* no valid tick was processed, or the signals lie wholly after or wholly
\* before the ticks
OutOfRange(st) ==
  \/ st.tickCount = 0
  \/ \A t \in SignalTimes : t > st.lastTickTime[1]
  \/ \A t \in SignalTimes : t < st.firstTickTime[1]

\* C38. No-trade diagnostics: a run that ends with an empty trade list ends in
\* an error, without a result, when no valid tick was processed, when the
\* earliest signal time is after the last tick's time or when the latest signal
\* time is before the first tick's time; in every other case, and whenever
\* there is a trade record, the run returns a result.
C38_NoTradeDiagnostics ==
  EndedPastChecks(run) =>
    IF run.trades = <<>> /\ OutOfRange(run)
    THEN run.pc = "error" /\ run.result = null /\ run.error \in NoTradeDiagnostics
    ELSE run.pc = "done" /\ run.result # null /\ run.result[1].trades = run.trades

\* C38 witness: the run failed because its only signals lie before the first
\* tick, with their positions opened and never closed
C38_Witness ==
  /\ run.pc = "error"
  /\ run.error = "Signal timestamps are BEFORE your tick data starts"
  /\ run.tickCount > 0
  /\ run.openTrades # <<>>

\* C38 witness of a result: signals and ticks overlap, no trade was closed
C38_WitnessResult ==
  /\ run.pc = "done"
  /\ run.tickCount > 0
  /\ run.trades = <<>>
  /\ run.openTrades # <<>>

\* --------------------------------- the two engines on the same inputs
\* run is a call of runBacktest and run2 a call of runBacktestCore (without
\* progress callback) with the same signals, strategy and risk configuration,
\* fed the same ticks; a step is a whole iteration of the tick loop in each
\* the timestamp "24-01-01 00:00:02", its year in two digits
ShortYearTs == [kind |-> "text", date |-> <<D2(24), D2(1), D2(1)>>,
                time |-> <<D2(0), D2(0), D2(2)>>]

ShortYearSignal == Signal("s8", "EURUSD", "buy", 3, 2, <<4>>, ShortYearTs)

\* strategies with one active level and with two, without partial close,
\* trailing stop or breakeven
SingleLevelStrategies ==
  { BaseStrategy,
    [BaseStrategy EXCEPT !.activeTPs = <<2>>],
    [BaseStrategy EXCEPT !.activeTPs = <<3>>],
    [BaseStrategy EXCEPT !.activeTPs = <<2>>, !.closeAllOnTP = 1],
    [BaseStrategy EXCEPT !.activeTPs = <<1, 2>>] }

BothScenarios ==
  ((SignalLists \cup {<<BuySignal, SellSignal, EarlySignal>>, <<GarbledSignal>>,
                      <<ShortYearSignal>>, <<SellSignal, ShortYearSignal>>})
     \X SingleLevelStrategies \X {BaseRisk})

InitBoth ==
  /\ \E sc \in BothScenarios :
       /\ signals = sc[1]
       /\ strategy = sc[2]
       /\ riskConfig = sc[3]
  /\ firstTouch = NoTouch
  /\ run = InitRun(1, WallClock)
  /\ run2 = CoreInitRun(2, WallClock, FALSE)
  /\ calc = NoCalc
  /\ source = NoSource
  /\ cancelRequested = FALSE
  /\ ipc = NoMessages

\* the loop over the open trades, run to its end
RECURSIVE EvalAll(_, _)
EvalAll(st, strat) == IF st.queue = <<>> THEN st ELSE EvalAll(EvalTrade(st, strat), strat)

RECURSIVE CoreEvalAll(_, _)
CoreEvalAll(st, strat) ==
  IF st.queue = <<>> THEN st ELSE CoreEvalAll(CoreEvalTrade(st, strat), strat)

\* one iteration of the tick loop of runBacktest, and the run's end when the
\* loop breaks
Iteration(st, tick, risk, strat) ==
  LET ended == EndTick(EvalAll(NextTick(st, tick, risk), strat))
  IN  IF ended.pc = "finish" THEN LeaveLoop(ended, risk) ELSE ended

\* one iteration of the tick loop of runBacktestCore
CoreIteration(st, tick, risk, strat) ==
  CoreEndTick(CoreEvalAll(CoreNextTick(st, tick, risk), strat))

StartEngines ==
  /\ run.pc = "start"
  /\ run2.pc = "start"
  /\ run' = Start(run, signals, riskConfig)
  /\ run2' = CoreStart(run2, signals, riskConfig)
  /\ UNCHANGED <<signals, strategy, riskConfig, firstTouch, calc, source, cancelRequested, ipc>>

\* the next tick of the stream; runBacktest, once it has left its loop, reads
\* no further tick
TickEngines ==
  /\ run2.pc = "pull"
  /\ run2.tickCount < MaxTicks
  /\ \E tick \in Ticks(signals) :
       /\ Chronological(run2, tick)
       /\ CoreFiniteSizing(run2, tick, riskConfig)
       /\ run.pc = "pull" => FiniteSizing(run, tick, riskConfig)
       /\ run' = IF run.pc = "pull" THEN Iteration(run, tick, riskConfig, strategy) ELSE run
       /\ run2' = CoreIteration(run2, tick, riskConfig, strategy)
  /\ UNCHANGED <<signals, strategy, riskConfig, firstTouch, calc, source, cancelRequested, ipc>>

\* the stream is exhausted
EndEngines ==
  /\ run2.pc = "pull"
  /\ run' = IF run.pc = "pull" THEN LeaveLoop(run, riskConfig) ELSE run
  /\ run2' = CoreLeaveLoop(run2, riskConfig)
  /\ UNCHANGED <<signals, strategy, riskConfig, firstTouch, calc, source, cancelRequested, ipc>>

NextBoth == StartEngines \/ TickEngines \/ EndEngines

SpecBoth == InitBoth /\ [][NextBoth]_vars

\* the (signalId, exitReason) of the trade records of a run, in their order
Outcomes(st) == [i \in 1..Len(st.trades) |-> <<st.trades[i].signalId, st.trades[i].exitReason>>]

\* one active level, levels in use, no partial close, trailing stop or
\* breakeven
SingleLevel ==
  /\ strategy.useMultipleTPs
  /\ Len(strategy.activeTPs) = 1
  /\ ~strategy.closePartials
  /\ ~strategy.trailingSL
  /\ ~strategy.moveSLToEntry

\* both runs are over and every position either engine opened was closed
BothClosedAll ==
  /\ run.pc \in {"done", "error"}
  /\ run2.pc \in {"done", "error"}
  /\ run.openTrades = <<>>
  /\ run2.openTrades = <<>>
  /\ \A i \in 1..Len(run2.trades) : run2.trades[i].exitReason # "open"

\* C39. Engine variants agree: on the same ticks, signals, strategy and risk
\* configuration, with take-profit levels in use, one active level, no partial
\* close, trailing stop or breakeven, and every opened position closed by the
\* end of the ticks, runBacktest and runBacktestCore have the same sequence of
\* (signalId, exitReason) in their trade records, and as many trades.
C39_EnginesAgree ==
  SingleLevel /\ BothClosedAll =>
    /\ Outcomes(run) = Outcomes(run2)
    /\ Len(run.trades) = Len(run2.trades)

\* every signal's date begins with a year of four digits
LongYears == \A i \in 1..Len(signals) :
               HasTimestamp(signals[i]) => Len(signals[i].timestamp.date[1]) = 4

\* the agreement of the engines on signals dated with a four-digit year first
C39_AgreeOnLongYears ==
  LongYears /\ SingleLevel /\ BothClosedAll =>
    /\ Outcomes(run) = Outcomes(run2)
    /\ Len(run.trades) = Len(run2.trades)

C39_WitnessLongYears ==
  /\ LongYears /\ SingleLevel /\ BothClosedAll
  /\ Len(run.trades) = 2
  /\ run.trades[1].exitReason = "sl"
  /\ run.trades[2].exitReason = "tp2"

====
